---- MODULE Spec2Model ----
(***************************************************************************)
(* Symplectic Pauli / Majorana operator algebra of symred / symmer:        *)
(*   src/symred/symplectic_form.py      PauliwordOp, StabilizerOp          *)
(*   src/symmer/symplectic/majorana_op.py  MajoranaOp, majorana_rotations  *)
(*                                                                         *)
(* Bit-matrices are sequences of rows, a row is a sequence of 0/1.         *)
(* numpy index k (from 0) is sequence index k+1.                           *)
(* A complex coefficient is <<re, im, h>>, the number (re + i*im) /        *)
(* sqrt(2)^h, kept in lowest terms: this is exact for every value the      *)
(* algebra produces from integers, i and cos(pi/4) = sin(pi/4).            *)
(***************************************************************************)
EXTENDS Integers, Sequences, FiniteSets, TLC

VARIABLES
    op, inA, inB, out,           \* one call of a pure operation: its name, arguments, result
    pc,                          \* where a basis reduction stands
    red_input,                   \* the operator the reduction was started on
    basis,                       \* argument of the pending _recursive_rotate_onto_sqp call
    rotations, used_indices,     \* closure lists of stabilizer_rotations
    maj_basis,                   \* argument of the pending _recursively_rotate call
    maj_rotations, maj_used_indices, rotated_basis,  \* fields of majorana_rotations
    red_result                   \* what the reduction returned or raised

algvars == <<op, inA, inB, out>>

redvars == <<pc, red_input, basis, rotations, used_indices, maj_basis,
             maj_rotations, maj_used_indices, rotated_basis, red_result>>

vars == <<algvars, redvars>>

(***************************************************************************)
(* Bounds of the model                                                     *)
(***************************************************************************)
MaxQubits == 2

MaxTerms == 2

\* rows of an operator given to cleanup (duplicates allowed)
MaxCleanupTerms == 3

(***************************************************************************)
(* Complex coefficients                                                    *)
(***************************************************************************)
RECURSIVE CNorm(_)
CNorm(c) ==
    IF c[1] = 0 /\ c[2] = 0 THEN <<0, 0, 0>>
    ELSE IF c[3] >= 2 /\ c[1] % 2 = 0 /\ c[2] % 2 = 0
         THEN CNorm(<<c[1] \div 2, c[2] \div 2, c[3] - 2>>)
         ELSE c

CInt(k) == <<k, 0, 0>>

COne == CInt(1)

CZero == CInt(0)

CImag == <<0, 1, 0>>

CMul(a, b) ==
    CNorm(<<a[1] * b[1] - a[2] * b[2], a[1] * b[2] + a[2] * b[1], a[3] + b[3]>>)

\* c written over the denominator sqrt(2)^h; h - c[3] must be even and >= 0
CScale(c, h) ==
    LET f == [d \in {0, 2, 4, 6, 8, 10, 12} |-> 2 ^ (d \div 2)][h - c[3]]
    IN  <<c[1] * f, c[2] * f, h>>

CAdd(a, b) ==
    IF a[1] = 0 /\ a[2] = 0 THEN b
    ELSE IF b[1] = 0 /\ b[2] = 0 THEN a
    ELSE LET h == IF a[3] >= b[3] THEN a[3] ELSE b[3]
             x == CScale(a, h)
             y == CScale(b, h)
         IN  CNorm(<<x[1] + y[1], x[2] + y[2], h>>)

CNeg(a) == <<-a[1], -a[2], a[3]>>

CConj(a) == <<a[1], -a[2], a[3]>>

\* (1j) ** k for an integer k >= 0
IPow(k) ==
    CASE k % 4 = 0 -> <<1, 0, 0>>
      [] k % 4 = 1 -> <<0, 1, 0>>
      [] k % 4 = 2 -> <<-1, 0, 0>>
      [] k % 4 = 3 -> <<0, -1, 0>>

\* (-1j) ** k
NegIPow(k) == IPow(3 * k)

\* (-1) ** k
SignPow(k) == IF k % 2 = 0 THEN CInt(1) ELSE CInt(-1)

(***************************************************************************)
(* Bit rows                                                                *)
(***************************************************************************)
\* e, with xs evaluated first, left to right: Python evaluates the statements
\* of a function body in order, and the operands of a call before the call
After(xs, e) == IF xs = xs THEN e ELSE e

\* the sequence f, as an explicit tuple (each element evaluated once)
Tup(f) == f \o <<>>

Bits(len) == [1..len -> {0, 1}]

Zeros(len) == Tup([k \in 1..len |-> 0])

bitwise_xor(u, v) == Tup([k \in 1..Len(u) |-> (u[k] + v[k]) % 2])

bitwise_and(u, v) == Tup([k \in 1..Len(u) |-> u[k] * v[k]])

\* np.sum / np.einsum('ij->i') of one 0/1 row
row_sum(u) == Cardinality({k \in 1..Len(u) : u[k] = 1})

\* row @ (1 << np.arange(len)[::-1]): leftmost bit most significant
RECURSIVE RowInt(_)
RowInt(u) ==
    IF u = <<>> THEN 0
    ELSE u[1] * 2 ^ (Len(u) - 1) + RowInt(Tail(u))

\* a plausible slip: the rows are left in the order given
argsort_none(keys) == Tup([p \in 1..Len(keys) |-> p])

\* np.argsort of a list of ints: the index (from 1) placed at each position
argsort(keys) ==
    LET N == Len(keys)
        rank(i) == 1 + Cardinality({j \in 1..N :
                          keys[j] < keys[i] \/ (keys[j] = keys[i] /\ j < i)})
    IN  Tup([p \in 1..N |-> CHOOSE i \in 1..N : rank(i) = p])

\* np.unique(list, return_counts=True): sorted distinct values and their counts
unique_elements(keys) ==
    LET vals == {keys[j] : j \in 1..Len(keys)}
    IN  Tup([p \in 1..Cardinality(vals) |->
            CHOOSE e \in vals : Cardinality({f \in vals : f < e}) = p - 1])

unique_counts(keys) ==
    LET el == unique_elements(keys)
    IN  Tup([p \in 1..Len(el) |-> Cardinality({j \in 1..Len(keys) : keys[j] = el[p]})])

RECURSIVE SumInts(_)
SumInts(s) == IF s = <<>> THEN 0 ELSE s[1] + SumInts(Tail(s))

\* np.append([0], np.cumsum(counts))[:-1], as numpy indices (from 0)
row_summing(counts) ==
    Tup([p \in 1..Len(counts) |-> SumInts(SubSeq(counts, 1, p - 1))])

RECURSIVE SumCoeffs(_)
SumCoeffs(s) == IF s = <<>> THEN CZero ELSE CAdd(s[1], SumCoeffs(Tail(s)))

\* np.add.reduceat(vec, idx) for strictly increasing numpy indices idx
add_reduceat(vec, idx) ==
    Tup([p \in 1..Len(idx) |->
        SumCoeffs(SubSeq(vec, idx[p] + 1,
                         IF p < Len(idx) THEN idx[p + 1] ELSE Len(vec)))])

(***************************************************************************)
(* PauliwordOp                                                             *)
(***************************************************************************)
PauliwordOp(symp, coeffs, n) ==
    [symp_matrix |-> symp, coeff_vec |-> coeffs, n_qubits |-> n]

n_terms(P) == Len(P.symp_matrix)

X_block(row) == SubSeq(row, 1, Len(row) \div 2)

Z_block(row) == SubSeq(row, Len(row) \div 2 + 1, Len(row))

Y_count(row) == row_sum(bitwise_and(X_block(row), Z_block(row)))

\* a plausible slip: the Z block of self against the X block of Pword
num_sign_flips_swapped(a, b) == row_sum(bitwise_and(Z_block(a), X_block(b)))

\* np.sum(np.bitwise_and(self.X_block, Pword.Z_block), axis=1) for one row
num_sign_flips(a, b) == row_sum(bitwise_and(X_block(a), Z_block(b)))

\* a plausible slip: the Y count of Pword left out
full_Y_count_self_only(a, b) == Y_count(a)

full_Y_count(a, b) == Y_count(a) + Y_count(b)

\* the phase of one row pair
phase_mod(a, b) ==
    LET sign_change == SignPow(num_sign_flips(a, b))
        sigma_tau_compensation == NegIPow(full_Y_count(a, b))
        tau_sigma_compensation == IPow(Y_count(bitwise_xor(a, b)))
    IN  CMul(CMul(sign_change, sigma_tau_compensation), tau_sigma_compensation)

\* self._multiply_single_Pword(Pword), Pword a single term
multiply_single_Pword(self, Pword) ==
    LET b == Pword.symp_matrix[1]
    IN  PauliwordOp(
            Tup([r \in 1..n_terms(self) |-> bitwise_xor(self.symp_matrix[r], b)]),
            Tup([r \in 1..n_terms(self) |->
                CMul(CMul(phase_mod(self.symp_matrix[r], b), self.coeff_vec[r]),
                     Pword.coeff_vec[1])]),
            self.n_qubits)

PauliwordOp_cleanup(self) ==
    LET int_list == Tup([r \in 1..n_terms(self) |-> RowInt(self.symp_matrix[r])])
        re_order_indices == argsort(int_list)
        sorted_int_list == Tup([p \in 1..n_terms(self) |-> int_list[re_order_indices[p]]])
        sorted_symp_matrix ==
            Tup([p \in 1..n_terms(self) |-> self.symp_matrix[re_order_indices[p]]])
        sorted_coeff_vec ==
            Tup([p \in 1..n_terms(self) |-> self.coeff_vec[re_order_indices[p]]])
        idx == row_summing(unique_counts(sorted_int_list))
    IN  After(<<int_list, re_order_indices, sorted_int_list, sorted_symp_matrix,
                sorted_coeff_vec, idx>>,
        PauliwordOp(Tup([p \in 1..Len(idx) |-> sorted_symp_matrix[idx[p] + 1]]),
                    add_reduceat(sorted_coeff_vec, idx),
                    self.n_qubits))

PauliwordOp_add(self, Pword) ==
    PauliwordOp_cleanup(PauliwordOp(self.symp_matrix \o Pword.symp_matrix,
                                    self.coeff_vec \o Pword.coeff_vec,
                                    self.n_qubits))

\* functools.reduce(lambda x,y: x+y, list) of a non-empty list
RECURSIVE reduce_add(_)
reduce_add(list) ==
    IF Len(list) = 1 THEN list[1]
    ELSE reduce_add(<<PauliwordOp_add(list[1], list[2])>> \o SubSeq(list, 3, Len(list)))

\* self * Pword, Pword with at least one term
PauliwordOp_mul(self, Pword) ==
    LET P_updated_list ==
            Tup([k \in 1..n_terms(Pword) |->
                multiply_single_Pword(self,
                    PauliwordOp(<<Pword.symp_matrix[k]>>, <<Pword.coeff_vec[k]>>,
                                Pword.n_qubits))])
    IN  reduce_add(P_updated_list)

\* a plausible slip: Pword's blocks taken as (X | Z), not swapped to (Z | X)
Omega_unswapped(row) == row

\* np.hstack((Pword.Z_block, Pword.X_block)) for one row
Omega(row) == Z_block(row) \o X_block(row)

\* row . row: the integer dot product of two 0/1 rows
dot(u, v) == row_sum(bitwise_and(u, v))

\* self.commutes_termwise(Pword): entry [i][j] TRUE where the terms commute
commutes_termwise(self, Pword) ==
    Tup([i \in 1..n_terms(self) |->
        Tup([j \in 1..n_terms(Pword) |->
            dot(self.symp_matrix[i], Omega(Pword.symp_matrix[j])) % 2 = 0])])

\* np.all(self.commutes_termwise(Pword))
commutes(self, Pword) ==
    \A i \in 1..n_terms(self) : \A j \in 1..n_terms(Pword) :
        commutes_termwise(self, Pword)[i][j]

(***************************************************************************)
(* StabilizerOp construction                                               *)
(***************************************************************************)
\* symred.utils.gf2_gaus_elim: row reduction over GF(2); the pivot search
\* scans the columns left to right and, in a column, the rows top to bottom
\* from row_i; every other row holding a 1 in the pivot column is XOR-ed
\* with the pivot row.
RECURSIVE gf2_elim_from(_, _, _)
gf2_elim_from(M, row_i, col_j) ==
    IF row_i > Len(M) \/ col_j > Len(M[1]) THEN M
    ELSE LET below == {k \in row_i..Len(M) : M[k][col_j] = 1}
         IN  IF below = {} THEN gf2_elim_from(M, row_i, col_j + 1)
             ELSE LET k == CHOOSE x \in below : \A y \in below : x <= y
                      swapped == [M EXCEPT ![k] = M[row_i], ![row_i] = M[k]]
                      cleared == Tup([r \in 1..Len(M) |->
                                    IF r # row_i /\ swapped[r][col_j] = 1
                                    THEN bitwise_xor(swapped[r], swapped[row_i])
                                    ELSE swapped[r]])
                  IN  gf2_elim_from(cleared, row_i + 1, col_j + 1)

gf2_gaus_elim(M) == IF M = <<>> THEN M ELSE gf2_elim_from(M, 1, 1)

\* M.T of a matrix with at least one row
transpose(M) ==
    Tup([c \in 1..Len(M[1]) |-> Tup([r \in 1..Len(M) |-> M[r][c]])])

\* M[:rows, cols:] of a numpy array: slices past the end are cut short
slice_top_right(M, rows, cols) ==
    LET kept == IF rows < Len(M) THEN rows ELSE Len(M)
    IN  Tup([r \in 1..kept |-> SubSeq(M[r], cols + 1, Len(M[r]))])

\* a plausible slip: the elimination applied to the stack itself, not to
\* its transpose
basis_reconstruction_untransposed(self, operator_basis) ==
    LET dim == n_terms(operator_basis)
        basis_op_stack == operator_basis.symp_matrix \o self.symp_matrix
    IN  [error |-> "none",
         op_reconstruction |->
             transpose(slice_top_right(gf2_gaus_elim(basis_op_stack), dim, dim))]

\* self.basis_reconstruction(operator_basis): the array returned; no
\* statement of the method raises for rows outside the span
basis_reconstruction(self, operator_basis) ==
    LET dim == n_terms(operator_basis)
        basis_op_stack == operator_basis.symp_matrix \o self.symp_matrix
    IN  [error |-> "none",
         op_reconstruction |->
             transpose(slice_top_right(gf2_gaus_elim(transpose(basis_op_stack)), dim, dim))]

\* a plausible slip: only coefficient +1 accepted
check_stab_plus_one(coeff_vec) ==
    \A r \in 1..Len(coeff_vec) : coeff_vec[r] = CInt(1)

\* StabilizerOp._check_stab: TRUE when the assertion passes
check_stab(coeff_vec) ==
    \A r \in 1..Len(coeff_vec) : coeff_vec[r] \in {CInt(1), CInt(-1)}

\* StabilizerOp._check_independent: TRUE when no ValueError is raised
check_independent(symp) ==
    LET reduced == gf2_gaus_elim(symp)
    IN  \A r \in 1..Len(reduced) : reduced[r] # Zeros(Len(reduced[r]))

\* StabilizerOp(operator, coeff_vec, target_sqp): the object, or the error raised
StabilizerOp(symp, coeffs, n, target_sqp) ==
    IF ~check_stab(coeffs)
    THEN [error |-> "AssertionError: Stabilizer coefficients not +/-1"]
    ELSE IF ~check_independent(symp)
    THEN [error |-> "ValueError: The supplied stabilizers are not independent"]
    ELSE [error |-> "none", symp_matrix |-> symp, coeff_vec |-> coeffs,
          n_qubits |-> n, target_sqp |-> target_sqp]

\* np.count_nonzero of a row
count_nonzero(row) == Cardinality({k \in 1..Len(row) : row[k] # 0})

\* a plausible slip: the X block measured instead of the Z block
update_sector_X_block(self, ref_state) ==
    [self EXCEPT !.coeff_vec =
        Tup([r \in 1..n_terms(self) |->
            SignPow(count_nonzero(bitwise_and(X_block(self.symp_matrix[r]), ref_state)))])]

\* a plausible slip: | in place of &
update_sector_or(self, ref_state) ==
    [self EXCEPT !.coeff_vec =
        Tup([r \in 1..n_terms(self) |->
            SignPow(count_nonzero(
                Tup([k \in 1..Len(ref_state) |->
                    IF Z_block(self.symp_matrix[r])[k] + ref_state[k] > 0 THEN 1 ELSE 0])))])]

\* self.update_sector(ref_state): self afterwards
update_sector(self, ref_state) ==
    [self EXCEPT !.coeff_vec =
        Tup([r \in 1..n_terms(self) |->
            SignPow(count_nonzero(bitwise_and(Z_block(self.symp_matrix[r]), ref_state)))])]

(***************************************************************************)
(* Codec: symplectic row <-> Pauli string                                  *)
(***************************************************************************)
symplectic_to_string(symp_vec) ==
    LET n == Len(symp_vec) \div 2
        X == X_block(symp_vec)
        Z == Z_block(symp_vec)
    IN  Tup([q \in 1..n |->
            IF X[q] = 1 /\ Z[q] = 1 THEN "Y"
            ELSE IF X[q] = 1 THEN "X"
            ELSE IF Z[q] = 1 THEN "Z"
            ELSE "I"])

string_to_symplectic(pauli_str) ==
    LET n == Len(pauli_str)
    IN  Tup([k \in 1..(2 * n) |->
            IF k <= n
            THEN (IF pauli_str[k] \in {"X", "Y"} THEN 1 ELSE 0)
            ELSE (IF pauli_str[k - n] \in {"Z", "Y"} THEN 1 ELSE 0)])

(***************************************************************************)
(* bubble_sort_maj                                                         *)
(***************************************************************************)
\* a plausible slip: equal neighbours are swapped too
out_of_order_or_equal(x, y) == x >= y

\* arr[j] > arr[j + 1]
out_of_order(x, y) == x > y

\* the inner loop: for j in range(j, limit), numpy index j
RECURSIVE bubble_inner(_, _, _, _, _)
bubble_inner(arr, j, limit, swapped, swap_counter) ==
    IF j >= limit
    THEN [arr |-> arr, swapped |-> swapped, swap_counter |-> swap_counter]
    ELSE IF out_of_order(arr[j + 1], arr[j + 2])
         THEN bubble_inner([arr EXCEPT ![j + 1] = arr[j + 2], ![j + 2] = arr[j + 1]],
                           j + 1, limit, TRUE, swap_counter + 1)
         ELSE bubble_inner(arr, j + 1, limit, swapped, swap_counter)

\* the outer loop: for i in range(i, n_sites), with the early break
RECURSIVE bubble_outer(_, _, _)
bubble_outer(arr, i, swap_counter) ==
    IF i >= Len(arr)
    THEN [arr |-> arr, swap_counter |-> swap_counter]
    ELSE LET r == bubble_inner(arr, 0, Len(arr) - i - 1, FALSE, swap_counter)
         IN  IF r.swapped = FALSE
             THEN [arr |-> r.arr, swap_counter |-> r.swap_counter]
             ELSE bubble_outer(r.arr, i + 1, r.swap_counter)

bubble_sort_maj(array) ==
    LET r == bubble_outer(array, 0, 0)
    IN  [arr |-> r.arr, sign |-> IF r.swap_counter % 2 = 0 THEN 1 ELSE -1]

(***************************************************************************)
(* MajoranaOp                                                              *)
(***************************************************************************)
MajOp(symp, coeffs, n) ==
    [symp_matrix |-> symp, coeff_vec |-> coeffs, n_sites |-> n]

\* term_index_list[row.astype(bool)]: the set modes of a row, ascending, from 0
term_modes(row) ==
    LET S == {k - 1 : k \in {j \in 1..Len(row) : row[j] = 1}}
    IN  Tup([p \in 1..Cardinality(S) |->
            CHOOSE e \in S : Cardinality({f \in S : f < e}) = p - 1])

\* coeff_vec *= (1j) ** (row weight // 2), unless the phases are included
phase_factors(symp, coeffs, phase_factors_included) ==
    IF phase_factors_included THEN coeffs
    ELSE Tup([r \in 1..Len(coeffs) |->
            CMul(coeffs[r], IPow(row_sum(symp[r]) \div 2))])

\* MajoranaOp(ndarray, coeffs): the symplectic form is taken as given
MajoranaOp_from_array(symp, coeffs, n, phase_factors_included) ==
    MajOp(symp, phase_factors(symp, coeffs, phase_factors_included), n)

SeqMax(S) == CHOOSE m \in S : \A x \in S : x <= m

\* MajoranaOp(list of mode lists, coeffs)
MajoranaOp_from_lists(input_term, coeffs, phase_factors_included) ==
    LET flat_list == UNION {{input_term[t][k] : k \in 1..Len(input_term[t])} :
                               t \in 1..Len(input_term)}
        n == IF flat_list # {}
             THEN (IF (SeqMax(flat_list) + 1) % 2 # 0
                   THEN SeqMax(flat_list) + 2 ELSE SeqMax(flat_list) + 1)
             ELSE 2
        sorted(t) == bubble_sort_maj(input_term[t])
        symp == Tup([t \in 1..Len(input_term) |->
                    Tup([k \in 1..n |->
                        IF \E p \in 1..Len(input_term[t]) : sorted(t).arr[p] = k - 1
                        THEN 1 ELSE 0])])
        signed == Tup([t \in 1..Len(input_term) |-> CMul(coeffs[t], CInt(sorted(t).sign))])
    IN  MajOp(symp, phase_factors(symp, signed, phase_factors_included), n)

MajoranaOp_cleanup(self) ==
    LET N == Len(self.symp_matrix)
        int_list == Tup([r \in 1..N |-> RowInt(self.symp_matrix[r])])
        re_order_indices == argsort(int_list)
        sorted_int_list == Tup([p \in 1..N |-> int_list[re_order_indices[p]]])
        sorted_symp_matrix == Tup([p \in 1..N |-> self.symp_matrix[re_order_indices[p]]])
        sorted_coeff_vec == Tup([p \in 1..N |-> self.coeff_vec[re_order_indices[p]]])
        idx == row_summing(unique_counts(sorted_int_list))
        reduced_symplectic_matrix == Tup([p \in 1..Len(idx) |-> sorted_symp_matrix[idx[p] + 1]])
        reduced_coeff_vec == add_reduceat(sorted_coeff_vec, idx)
        \* abs(coeff) > zero_threshold: every nonzero coefficient of the model is
        \* far above 1e-15, and an exact zero is below it
        mask_nonzero == SelectSeq(Tup([p \in 1..Len(idx) |-> p]),
                                  LAMBDA p : reduced_coeff_vec[p] # CZero)
    IN  After(<<int_list, re_order_indices, sorted_int_list, sorted_symp_matrix,
                sorted_coeff_vec, idx, reduced_symplectic_matrix, reduced_coeff_vec,
                mask_nonzero>>,
        MajoranaOp_from_array(
            Tup([m \in 1..Len(mask_nonzero) |-> reduced_symplectic_matrix[mask_nonzero[m]]]),
            Tup([m \in 1..Len(mask_nonzero) |-> reduced_coeff_vec[mask_nonzero[m]]]),
            self.n_sites, TRUE))

\* temp_mat[:, :n_sites] += symp_matrix: trailing zero columns up to width n
pad_sites(symp, n) ==
    Tup([r \in 1..Len(symp) |-> symp[r] \o Zeros(n - Len(symp[r]))])

\* a plausible slip: the plain outer product of the coefficients, no sign
reordering_sign_none(vec1, vec2) == 1

\* bubble_sort_maj on the modes of vec1 followed by the modes of vec2
reordering_sign(vec1, vec2) ==
    bubble_sort_maj(term_modes(vec1) \o term_modes(vec2)).sign

MajoranaOp_mul(self, M_OP) ==
    LET n == IF self.n_sites < M_OP.n_sites THEN M_OP.n_sites ELSE self.n_sites
        temp_mat_self == pad_sites(self.symp_matrix, n)
        temp_mat_M_OP == pad_sites(M_OP.symp_matrix, n)
        nA == Len(temp_mat_self)
        nB == Len(temp_mat_M_OP)
        ind1(ind) == (ind - 1) \div nB + 1
        ind2(ind) == ((ind - 1) % nB) + 1
        new_vec == Tup([ind \in 1..(nA * nB) |->
                       bitwise_xor(temp_mat_self[ind1(ind)], temp_mat_M_OP[ind2(ind)])])
        new_coeff_vec ==
            Tup([ind \in 1..(nA * nB) |->
                CMul(CMul(self.coeff_vec[ind1(ind)], M_OP.coeff_vec[ind2(ind)]),
                     CInt(reordering_sign(temp_mat_self[ind1(ind)],
                                          temp_mat_M_OP[ind2(ind)])))])
        product == MajoranaOp_from_array(new_vec, new_coeff_vec, n, TRUE)
    IN  After(<<temp_mat_self, temp_mat_M_OP, product>>, MajoranaOp_cleanup(product))

\* self == M_OP (np.allclose is exact equality of the model's coefficients)
MajoranaOp_eq(self, M_OP) ==
    LET check_1 == MajoranaOp_cleanup(self)
        check_2 == MajoranaOp_cleanup(M_OP)
        n == IF check_1.n_sites < check_2.n_sites THEN check_2.n_sites
             ELSE check_1.n_sites
    IN  IF Len(check_1.symp_matrix) # Len(check_2.symp_matrix) THEN FALSE
        ELSE /\ pad_sites(check_1.symp_matrix, n) = pad_sites(check_2.symp_matrix, n)
             /\ check_1.coeff_vec = check_2.coeff_vec

(***************************************************************************)
(* Rotations of a PauliwordOp and StabilizerOp.stabilizer_rotations        *)
(***************************************************************************)
\* the elements of a set of integers, ascending
SortedSeq(S) ==
    Tup([p \in 1..Cardinality(S) |->
        CHOOSE e \in S : Cardinality({f \in S : f < e}) = p - 1])

\* np.where(row)[0]: the numpy indices (from 0) of the set bits, ascending
where(row) == SortedSeq({k - 1 : k \in {j \in 1..Len(row) : row[j] = 1}})

\* np.setdiff1d(ar1, ar2) of two integer arrays
setdiff1d(ar1, ar2) ==
    SortedSeq({ar1[k] : k \in 1..Len(ar1)} \ {ar2[k] : k \in 1..Len(ar2)})

\* np.argmin(vals) of a non-empty list: the first position (from 1) of the minimum
argmin(vals) ==
    CHOOSE i \in 1..Len(vals) :
        /\ \A j \in 1..Len(vals) : vals[i] <= vals[j]
        /\ \A j \in 1..(i - 1) : vals[j] > vals[i]

\* np.einsum('ij->j', symp): the column sums of a matrix of the given width
col_sums(symp, width) ==
    Tup([k \in 1..width |-> Cardinality({r \in 1..Len(symp) : symp[r][k] = 1})])

\* the rows of self picked by a boolean mask, in order
mask_rows(self, mask) ==
    LET idx == SelectSeq(Tup([r \in 1..n_terms(self) |-> r]), LAMBDA r : mask[r])
    IN  PauliwordOp(Tup([m \in 1..Len(idx) |-> self.symp_matrix[idx[m]]]),
                    Tup([m \in 1..Len(idx) |-> self.coeff_vec[idx[m]]]),
                    self.n_qubits)

\* self[key] for an int key (from 0)
PauliwordOp_getitem(self, key) ==
    PauliwordOp(<<self.symp_matrix[key + 1]>>, <<self.coeff_vec[key + 1]>>, self.n_qubits)

multiply_by_constant(self, const) ==
    PauliwordOp(self.symp_matrix,
                Tup([r \in 1..n_terms(self) |-> CMul(self.coeff_vec[r], const)]),
                self.n_qubits)

\* a plausible slip: the product anticom_self * Pword_copy without the -1j
add_anticom_part_unscaled(commute_self, product) ==
    After(<<commute_self, product>>, PauliwordOp_add(commute_self, product))

\* commute_self + (anticom_self * Pword_copy).multiply_by_constant(-1j)
add_anticom_part(commute_self, product) ==
    After(<<commute_self, product>>,
          PauliwordOp_add(commute_self, multiply_by_constant(product, CNeg(CImag))))

\* the rows of self split by commute_vec, the anticommuting ones multiplied
\* by Pword_copy
split_by_commute_vec(self, Pword_copy, commute_vec) ==
    After(commute_vec,
          add_anticom_part(
              mask_rows(self, commute_vec),
              PauliwordOp_mul(
                  mask_rows(self, Tup([r \in 1..Len(commute_vec) |-> ~commute_vec[r]])),
                  Pword_copy)))

rotate_by_Pword_copy(self, Pword_copy) ==
    split_by_commute_vec(self, Pword_copy,
        Tup([r \in 1..n_terms(self) |-> commutes_termwise(self, Pword_copy)[r][1]]))

\* self._rotate_by_single_Pword(Pword) with angle None (pi/2, Clifford)
rotate_by_single_Pword(self, Pword) ==
    rotate_by_Pword_copy(self,
        IF Pword.coeff_vec[1] # COne
        THEN [Pword EXCEPT !.coeff_vec = <<COne>>] ELSE Pword)

\* a plausible slip: the coefficient set to 1 on Pword itself, without the copy
unit_coefficient_in_place(objects, Pword) ==
    IF objects[Pword].coeff_vec[1] # COne
    THEN [objects |-> [objects EXCEPT ![Pword].coeff_vec[1] = COne], Pword_copy |-> Pword]
    ELSE [objects |-> objects, Pword_copy |-> Pword]

\* the start of _rotate_by_single_Pword on objects held by reference: Pword
\* is a position in objects; a coefficient other than 1 is set to 1 on a deep
\* copy (and a warning issued), otherwise Pword_copy is Pword itself
unit_coefficient(objects, Pword) ==
    IF objects[Pword].coeff_vec[1] # COne
    THEN [objects |-> [Append(objects, objects[Pword])
                          EXCEPT ![Len(objects) + 1].coeff_vec[1] = COne],
          Pword_copy |-> Len(objects) + 1]
    ELSE [objects |-> objects, Pword_copy |-> Pword]

\* objects[self]._rotate_by_single_Pword(objects[Pword]): the objects
\* afterwards and the operator returned
rotate_objects(objects, self, Pword, started) ==
    [objects |-> started.objects,
     result |-> rotate_by_Pword_copy(started.objects[self],
                                     started.objects[started.Pword_copy])]

rotate_by_single_Pword_ref(objects, self, Pword) ==
    rotate_objects(objects, self, Pword, unit_coefficient(objects, Pword))

\* self.recursive_rotate_by_Pword(pauli_rot_list) for a list of Pauli strings
RECURSIVE recursive_rotate_by_Pword(_, _)
rotate_by_rest(P_rotating, rest) ==
    After(P_rotating, recursive_rotate_by_Pword(P_rotating, rest))

recursive_rotate_by_Pword(self, pauli_rot_list) ==
    IF pauli_rot_list = <<>> THEN self
    ELSE rotate_by_rest(
             PauliwordOp_cleanup(
                 rotate_by_single_Pword(self,
                     PauliwordOp(<<string_to_symplectic(pauli_rot_list[1])>>,
                                 <<COne>>, self.n_qubits))),
             Tail(pauli_rot_list))

\* update_sets(base_vector, pivot_index): the Y set at the pivot qubit
update_sets(base_vector, pivot_index, n) ==
    LET pivot_index_X == pivot_index % n
    IN  [base_vector |-> [base_vector EXCEPT ![pivot_index_X + 1] = 1,
                                            ![pivot_index_X + n + 1] = 1],
         used |-> <<pivot_index_X, pivot_index_X + n>>]

\* the basis None handed to _recursive_rotate_onto_sqp
None == PauliwordOp(<<>>, <<>>, 0)

\* new_basis: the rows of rotated_basis that are not single-qubit Paulis, or None
new_basis_of(rotated_basis_, non_sqp) ==
    IF non_sqp = <<>> THEN None
    ELSE reduce_add(Tup([m \in 1..Len(non_sqp) |->
             PauliwordOp_getitem(rotated_basis_, non_sqp[m])]))

select_non_sqp(upd, rotated_basis_) ==
    After(rotated_basis_,
        [error |-> "none",
         rotation |-> symplectic_to_string(upd.base_vector),
         used |-> upd.used,
         new_basis |-> new_basis_of(rotated_basis_,
             SelectSeq(Tup([r \in 1..n_terms(rotated_basis_) |-> r - 1]),
                       LAMBDA i : row_sum(rotated_basis_.symp_matrix[i + 1]) # 1))])

\* the pivot rotation built by update_sets and applied to the basis
rotate_by_pivot(b, n, upd) ==
    select_non_sqp(upd,
        rotate_by_single_Pword(b, PauliwordOp(<<upd.base_vector>>, <<COne>>, n)))

\* pivot_point = non_I[np.argmin(support[non_I])]
sqp_pivot_point(non_I, support) ==
    non_I[argmin(Tup([m \in 1..Len(non_I) |-> support[non_I[m] + 1]]))]

\* pivot_point: the position of least support among non_I; np.argmin raises
\* on an empty non_I
choose_pivot_point(b, n, pivot_row, non_I, support) ==
    IF non_I = <<>>
    THEN [error |-> "ValueError: attempt to get argmin of an empty sequence"]
    ELSE rotate_by_pivot(b, n, update_sets(pivot_row, sqp_pivot_point(non_I, support), n))

with_pivot_row(b, used, n, pivot_row, col_sum) ==
    choose_pivot_point(b, n, pivot_row, setdiff1d(where(pivot_row), used),
        Tup([k \in 1..(2 * n) |-> pivot_row[k] * col_sum[k]]))

\* pivot_row = basis.symp_matrix[np.argsort(row_sum)][0]
sqp_pivot_row(b) ==
    b.symp_matrix[argsort(Tup([r \in 1..n_terms(b) |-> row_sum(b.symp_matrix[r])]))[1]]

\* one call of _recursive_rotate_onto_sqp(basis), basis not None: the error
\* raised, or the rotation appended, the indices appended and new_basis
recursive_rotate_onto_sqp(b, used, n) ==
    with_pivot_row(b, used, n, sqp_pivot_row(b), col_sums(b.symp_matrix, 2 * n))

\* the loop after the recursion: a Y rotation for every row of rotated_op that
\* is a single-qubit Pauli of the other type; the condition cannot be
\* evaluated for a row with more than one set bit
RECURSIVE target_pass(_, _, _, _)
target_pass(rows, target_sqp, n, acc) ==
    IF acc.error # "none" \/ rows = <<>> THEN acc
    ELSE LET sqp_index == where(rows[1])
             \* with target_sqp 'X' or 'Z' one comparison of sqp_index is truth-tested
             tested == target_sqp \in {"X", "Z"}
         IN  IF tested /\ Len(sqp_index) > 1
             THEN [error |-> "ValueError: The truth value of an array with more than one element is ambiguous"]
             ELSE IF /\ Len(sqp_index) = 1
                     /\ \/ (target_sqp = "Z" /\ sqp_index[1] < n)
                        \/ (target_sqp = "X" /\ sqp_index[1] >= n)
             THEN LET upd == update_sets(Zeros(2 * n), sqp_index[1], n)
                  IN  target_pass(Tail(rows), target_sqp, n,
                          [error |-> "none",
                           rotations |-> Append(acc.rotations,
                                                symplectic_to_string(upd.base_vector)),
                           used |-> acc.used \o upd.used])
             ELSE target_pass(Tail(rows), target_sqp, n, acc)

\* self.rotate_onto_single_qubit_paulis(), given self.stabilizer_rotations
rotate_onto_single_qubit_paulis(self, rots) ==
    LET rotated_stabilizers == IF rots # <<>> THEN recursive_rotate_by_Pword(self, rots)
                               ELSE self
    IN  After(rotated_stabilizers, StabilizerOp(rotated_stabilizers.symp_matrix, rotated_stabilizers.coeff_vec,
                     self.n_qubits, "X"))

(***************************************************************************)
(* majorana_rotations                                                      *)
(***************************************************************************)
Reverse(s) == Tup([k \in 1..Len(s) |-> s[Len(s) + 1 - k]])

\* np.cos(np.pi / 4) and 1j * np.sin(np.pi / 4), both 1/sqrt(2) in size
cos_pi_4 == <<1, 0, 1>>

i_sin_pi_4 == <<0, 1, 1>>

\* a plausible slip: the modes of every term left in ascending order
MajoranaOp_dagger_unreversed(self) ==
    LET N == Len(self.symp_matrix)
        new_terms == Tup([r \in 1..N |-> term_modes(self.symp_matrix[r])])
    IN  MajoranaOp_from_lists(new_terms,
                              Tup([r \in 1..N |-> CConj(self.coeff_vec[r])]), TRUE)

\* self.dagger: every term rebuilt from its modes in reverse order, with the
\* conjugated coefficient
MajoranaOp_dagger(self) ==
    LET N == Len(self.symp_matrix)
        new_terms == Tup([r \in 1..N |-> Reverse(term_modes(self.symp_matrix[r]))])
    IN  MajoranaOp_from_lists(new_terms,
                              Tup([r \in 1..N |-> CConj(self.coeff_vec[r])]), TRUE)

\* a plausible slip: the parity without the + 1
MajoranaOp_commutes_termwise_parity(self, M_OP) ==
    LET sites == IF self.n_sites < M_OP.n_sites THEN self.n_sites ELSE M_OP.n_sites
    IN  Tup([i \in 1..Len(self.symp_matrix) |->
            Tup([j \in 1..Len(M_OP.symp_matrix) |->
                (row_sum(self.symp_matrix[i]) * row_sum(M_OP.symp_matrix[j])
                    + dot(SubSeq(self.symp_matrix[i], 1, sites),
                          SubSeq(M_OP.symp_matrix[j], 1, sites))) % 2])])

\* a plausible slip: the product of the support sizes left out
MajoranaOp_commutes_termwise_overlap(self, M_OP) ==
    LET sites == IF self.n_sites < M_OP.n_sites THEN self.n_sites ELSE M_OP.n_sites
    IN  Tup([i \in 1..Len(self.symp_matrix) |->
            Tup([j \in 1..Len(M_OP.symp_matrix) |->
                (dot(SubSeq(self.symp_matrix[i], 1, sites),
                     SubSeq(M_OP.symp_matrix[j], 1, sites)) + 1) % 2])])

\* self.commutes_termwise(M_OP): comm_flag, 1 where the terms commute
MajoranaOp_commutes_termwise(self, M_OP) ==
    LET sites == IF self.n_sites < M_OP.n_sites THEN self.n_sites ELSE M_OP.n_sites
        suppA(i) == row_sum(self.symp_matrix[i])
        suppB(j) == row_sum(M_OP.symp_matrix[j])
        AandB(i, j) == dot(SubSeq(self.symp_matrix[i], 1, sites),
                           SubSeq(M_OP.symp_matrix[j], 1, sites))
    IN  Tup([i \in 1..Len(self.symp_matrix) |->
            Tup([j \in 1..Len(M_OP.symp_matrix) |->
                (suppA(i) * suppB(j) + AandB(i, j) + 1) % 2])])

\* the value None of singles_operator
NoneMaj == MajOp(<<>>, <<>>, 0)

\* the rows of maj_op at the listed positions (from 1)
maj_rows(maj_op, idx) ==
    MajoranaOp_from_array(Tup([m \in 1..Len(idx) |-> maj_op.symp_matrix[idx[m]]]),
                          Tup([m \in 1..Len(idx) |-> maj_op.coeff_vec[idx[m]]]),
                          maj_op.n_sites, TRUE)

\* self._delete_reduced_rows(maj_op)
delete_reduced_rows(maj_op) ==
    LET N == Len(maj_op.symp_matrix)
        \* np.logical_and(symp[:, even_inds], symp[:, odd_inds]) summed over a row
        z_term_check(r) ==
            Cardinality({k \in 0..(maj_op.n_sites \div 2 - 1) :
                /\ maj_op.symp_matrix[r][2 * k + 1] = 1
                /\ maj_op.symp_matrix[r][2 * k + 2] = 1})
        is_single(r) == z_term_check(r) = 1 /\ row_sum(maj_op.symp_matrix[r]) = 2
        all_rows == Tup([r \in 1..N |-> r])
        single_z_rows == SelectSeq(all_rows, is_single)
        kept_rows == SelectSeq(all_rows, LAMBDA r : ~is_single(r))
        maj_z_pair_indices ==
            {k \in 0..(maj_op.n_sites - 1) :
                Cardinality({m \in 1..Len(single_z_rows) :
                    maj_op.symp_matrix[single_z_rows[m]][k + 1] = 1}) = 1}
    IN  [maj_z_pair_indices |-> maj_z_pair_indices,
         singles_operator |-> IF Len(single_z_rows) > 0
                              THEN maj_rows(maj_op, single_z_rows) ELSE NoneMaj,
         reduced_maj |-> maj_rows(maj_op, kept_rows)]

\* np.lexsort(symp.T)[::-1]: the last column is the primary key, so the rows
\* are ordered by their bits read right to left; positions from 1
lexsort_reversed(symp) ==
    Reverse(argsort(Tup([r \in 1..Len(symp) |-> RowInt(Reverse(symp[r]))])))

\* np.setdiff1d(indice_full, np.array(self.used_indices)) where used_indices
\* is a Python set: np.array wraps the set in one object element, which
\* compares unequal to every integer, so no index is removed
setdiff1d_set(ar1, used) == SortedSeq({ar1[k] : k \in 1..Len(ar1)})

\* R * B * R.dagger as Python evaluates it: (R * B) * R.dagger
times_dagger(RB, Rdag) == After(<<RB, Rdag>>, MajoranaOp_mul(RB, Rdag))

conjugate_by(R, B) == times_dagger(MajoranaOp_mul(R, B), MajoranaOp_dagger(R))

\* (R * B * R.dagger).cleanup()
conjugate_cleanup(R, B) == MajoranaOp_cleanup(conjugate_by(R, B))

\* the pivot row: the first row in the order of np.lexsort(symp.T)[::-1]
pivot_row_of(mb) == mb.symp_matrix[lexsort_reversed(mb.symp_matrix)[1]]

\* pivot_point: the position of least support among non_I
pivot_point_of(mb, pivot_row, used) ==
    LET n == mb.n_sites
        inds == SortedSeq({k \in 0..(n \div 2 - 1) :
                              pivot_row[2 * k + 1] = 1 \/ pivot_row[2 * k + 2] = 1})
        indice_full == Tup([m \in 1..Len(inds) |-> 2 * inds[m]]) \o
                       Tup([m \in 1..Len(inds) |-> 2 * inds[m] + 1])
        non_I == setdiff1d_set(indice_full, used)
        col_sum == col_sums(mb.symp_matrix, n)
        support == Tup([k \in 1..n |-> pivot_row[k] * col_sum[k]])
    IN  non_I[argmin(Tup([m \in 1..Len(non_I) |-> support[non_I[m] + 1]]))]

\* rot_op2: the rotated pivot row with the two positions of the pivot pair flipped
rot_op2_of(first_row, pivot_point_even) ==
    [first_row EXCEPT
        ![pivot_point_even + 1] = (first_row[pivot_point_even + 1] + 1) % 2,
        ![pivot_point_even + 2] = (first_row[pivot_point_even + 2] + 1) % 2]

\* the second rotation applied: the rotations appended, the term appended to
\* rotated_basis and the argument of the recursive call
second_rotation(first_rotations, rot_basis_out, rot_piv, maj_rot_op2) ==
    After(<<rot_basis_out, rot_piv, maj_rot_op2>>,
        [rotations |-> Append(first_rotations, maj_rot_op2),
         rotated_term |-> conjugate_cleanup(maj_rot_op2, rot_piv),
         rot_basis_out2 |-> conjugate_by(maj_rot_op2, rot_basis_out)])

\* maj_rot_op2 built from the pivot term as the first rotation left it
build_rot_op2(n, pivot_point_even, first_rotations, rot_basis_out, rot_piv) ==
    After(rot_piv,
        second_rotation(first_rotations, rot_basis_out, rot_piv,
            MajoranaOp_from_array(
                <<Zeros(n), rot_op2_of(rot_piv.symp_matrix[1], pivot_point_even)>>,
                <<cos_pi_4, i_sin_pi_4>>, n, FALSE)))

\* the Z_rot branch: when the pivot row holds both modes of the pivot pair,
\* rotate by the string of modes 0..pivot_point_odd first; the pivot pair is
\* taken from the pairs where pivot_row is set, so the 'pivot error' branch
\* (both positions 0) is never entered
first_rotation(mb, pivot_maj, pivot_point_even, Z_rot, maj_rot_op) ==
    IF Z_rot
    THEN build_rot_op2(mb.n_sites, pivot_point_even, <<maj_rot_op>>,
                       conjugate_cleanup(maj_rot_op, mb),
                       conjugate_cleanup(maj_rot_op, pivot_maj))
    ELSE build_rot_op2(mb.n_sites, pivot_point_even, <<>>, mb, pivot_maj)

rotate_at(mb, pivot_row, pivot_point_even) ==
    first_rotation(mb,
        MajoranaOp_from_array(<<pivot_row>>, <<COne>>, mb.n_sites, FALSE),
        pivot_point_even,
        pivot_row[pivot_point_even + 1] + pivot_row[pivot_point_even + 2] = 2,
        MajoranaOp_from_lists(<<<<>>, Tup([k \in 1..(pivot_point_even + 1) |-> k - 1])>>,
                              <<cos_pi_4, i_sin_pi_4>>, FALSE))

rotate_about(mb, pivot_row, pivot_point) ==
    rotate_at(mb, pivot_row, pivot_point - (pivot_point % 2))

rotate_from(mb, used, pivot_row) ==
    After(pivot_row, rotate_about(mb, pivot_row, pivot_point_of(mb, pivot_row, used)))

\* the body of _recursively_rotate after the strip, for a non-empty maj_basis
rotate_pivot(mb, used) == rotate_from(mb, used, pivot_row_of(mb))

(***************************************************************************)
(* Operators in memory: numpy arrays held by reference                     *)
(***************************************************************************)
\* mem is the sequence of the arrays that exist; an operator in memory holds,
\* in symp_matrix and coeff_vec, the positions of its two arrays. Creating an
\* array appends it; an in-place statement rewrites one position.

\* the PauliwordOp that the operator P in memory stands for
PauliwordOp_at(mem, P) ==
    PauliwordOp(mem[P.symp_matrix], mem[P.coeff_vec], P.n_qubits)

MajoranaOp_at(mem, M) ==
    MajOp(mem[M.symp_matrix], mem[M.coeff_vec], M.n_sites)

\* an operator built on two newly created arrays: PauliwordOp.__init__ and
\* MajoranaOp.__init__ keep the arrays they are given (np.asarray of a
\* complex array is that array), and an ndarray input with
\* phase_factors_included=True is not written to
new_operator(mem, value) ==
    [mem |-> mem \o <<value.symp_matrix, value.coeff_vec>>,
     obj |-> [value EXCEPT !.symp_matrix = Len(mem) + 1, !.coeff_vec = Len(mem) + 2]]

\* a plausible slip: the operand itself in place of its copy
deepcopy_alias(mem, obj) == [mem |-> mem, obj |-> obj]

\* obj.copy(): deepcopy, the arrays copied as well
deepcopy(mem, obj) ==
    [mem |-> mem \o <<mem[obj.symp_matrix], mem[obj.coeff_vec]>>,
     obj |-> [obj EXCEPT !.symp_matrix = Len(mem) + 1, !.coeff_vec = Len(mem) + 2]]

\* array *= const, in place
imul(mem, array, const) ==
    [mem EXCEPT ![array] = Tup([k \in 1..Len(mem[array]) |-> CMul(mem[array][k], const)])]

\* self + Pword: np.vstack and np.hstack create the arrays of the sum
PauliwordOp_add_mem(mem, self, Pword) ==
    new_operator(mem, PauliwordOp_add(PauliwordOp_at(mem, self), PauliwordOp_at(mem, Pword)))

\* op_copy.coeff_vec *= -1; return self + op_copy
negate_and_add(copied, self) ==
    PauliwordOp_add_mem(imul(copied.mem, copied.obj.coeff_vec, CInt(-1)), self, copied.obj)

\* self - Pword
PauliwordOp_sub_mem(mem, self, Pword) == negate_and_add(deepcopy(mem, Pword), self)

\* self * Pword: every _multiply_single_Pword creates its arrays
PauliwordOp_mul_mem(mem, self, Pword) ==
    new_operator(mem, PauliwordOp_mul(PauliwordOp_at(mem, self), PauliwordOp_at(mem, Pword)))

\* self.cleanup(): indexing with an index array creates the arrays
PauliwordOp_cleanup_mem(mem, self) ==
    new_operator(mem, PauliwordOp_cleanup(PauliwordOp_at(mem, self)))

\* the loop of recursive_rotate_by_Pword on P_rotating
rotate_the_copy(copied, pauli_rot_list) ==
    new_operator(copied.mem,
        recursive_rotate_by_Pword(PauliwordOp_at(copied.mem, copied.obj), pauli_rot_list))

\* self.recursive_rotate_by_Pword(pauli_rot_list): P_rotating = self.copy()
recursive_rotate_by_Pword_mem(mem, self, pauli_rot_list) ==
    rotate_the_copy(deepcopy(mem, self), pauli_rot_list)

\* self + M_OP for two MajoranaOp: the narrower matrix padded with zero columns
MajoranaOp_add(self, M_OP) ==
    LET n == IF self.n_sites < M_OP.n_sites THEN M_OP.n_sites ELSE self.n_sites
    IN  MajoranaOp_cleanup(
            MajoranaOp_from_array(
                pad_sites(self.symp_matrix, n) \o pad_sites(M_OP.symp_matrix, n),
                self.coeff_vec \o M_OP.coeff_vec, n, TRUE))

MajoranaOp_add_mem(mem, self, M_OP) ==
    new_operator(mem, MajoranaOp_add(MajoranaOp_at(mem, self), MajoranaOp_at(mem, M_OP)))

\* op_copy.coeff_vec *= -1; return self + op_copy
maj_negate_and_add(copied, self) ==
    MajoranaOp_add_mem(imul(copied.mem, copied.obj.coeff_vec, CInt(-1)), self, copied.obj)

\* self - M_OP
MajoranaOp_sub_mem(mem, self, M_OP) == maj_negate_and_add(deepcopy(mem, M_OP), self)

MajoranaOp_mul_mem(mem, self, M_OP) ==
    new_operator(mem, MajoranaOp_mul(MajoranaOp_at(mem, self), MajoranaOp_at(mem, M_OP)))

MajoranaOp_cleanup_mem(mem, self) ==
    new_operator(mem, MajoranaOp_cleanup(MajoranaOp_at(mem, self)))

\* MajoranaOp(input_term, coeff_list, phase_factors_included) for a list of
\* mode lists and a complex array coeff_list: self.coeff_vec is that array,
\* and the signs of the reordering (and the phase factors) are multiplied
\* into it in place; the symplectic matrix is a new array
MajoranaOp_init_mem(mem, input_term, coeff_list, phase_factors_included) ==
    LET built == MajoranaOp_from_lists(input_term, mem[coeff_list], phase_factors_included)
    IN  [mem |-> Append([mem EXCEPT ![coeff_list] = built.coeff_vec], built.symp_matrix),
         obj |-> MajOp(Len(mem) + 1, coeff_list, built.n_sites)]

\* the modes of every row of self in reverse order
reversed_terms(self) ==
    Tup([r \in 1..Len(self.symp_matrix) |-> Reverse(term_modes(self.symp_matrix[r]))])

\* self.dagger: self.coeff_vec.conjugate() is a new array
MajoranaOp_dagger_mem(mem, self) ==
    MajoranaOp_init_mem(
        Append(mem, Tup([r \in 1..Len(mem[self.coeff_vec]) |-> CConj(mem[self.coeff_vec][r])])),
        reversed_terms(MajoranaOp_at(mem, self)), Len(mem) + 1, TRUE)

(***************************************************************************)
(* Inputs                                                                  *)
(***************************************************************************)
\* largest mode index used for single-mode Majorana operators
MaxMode == 3

\* longest list given to bubble_sort_maj, with entries 0..MaxMode
MaxListLen == 4

\* single Pauli strings with coefficient 1 on n qubits
SinglePaulis(n) == {PauliwordOp(<<v>>, <<COne>>, n) : v \in Bits(2 * n)}

ModeLists == UNION {[1..len -> 0..MaxMode] : len \in 0..MaxListLen}

\* rows given to the StabilizerOp constructor
MaxStabTerms == 3

\* fermionic modes (pairs of Majorana sites) of a basis given to majorana_rotations
MaxMajPairs == 3

\* rows of a basis given to majorana_rotations
MaxMajTerms == 2

\* rotations after which the model stops following _recursively_rotate
MaxMajRotations == 8

\* coefficients given to the operators of the model
\* the coefficients a rotation generator is given
\* the largest mode of the terms whose dagger is taken
MaxDaggerMode == 5

\* lists of distinct modes, in any order
DistinctModeLists ==
    {A \in UNION {[1..len -> 0..MaxDaggerMode] : len \in 0..MaxListLen} :
        \A p \in 1..Len(A) : \A q \in 1..Len(A) : p # q => A[p] # A[q]}

RotationCoeffs == {CInt(1), CInt(-1), CImag}

UnitSigns == {CInt(1), CInt(-1)}

Init ==
    /\ op = "init"
    /\ inA = <<>>
    /\ inB = <<>>
    /\ out = <<>>
    /\ pc = "init"
    /\ red_input = <<>>
    /\ basis = None
    /\ rotations = <<>>
    /\ used_indices = <<>>
    /\ maj_basis = NoneMaj
    /\ maj_rotations = <<>>
    /\ maj_used_indices = {}
    /\ rotated_basis = <<>>
    /\ red_result = <<>>

\* a * b for two single Pauli strings
MulSingle ==
    /\ op = "init"
    /\ pc = "init"
    /\ UNCHANGED redvars
    /\ \E n \in 1..MaxQubits : \E a \in SinglePaulis(n), b \in SinglePaulis(n) :
        /\ op' = "mul_single"
        /\ inA' = a
        /\ inB' = b
        /\ out' = PauliwordOp_mul(a, b)

\* bubble_sort_maj(list); inB observes the local swap_counter at the return
BubbleSort ==
    /\ op = "init"
    /\ pc = "init"
    /\ UNCHANGED redvars
    /\ \E list \in ModeLists :
        /\ op' = "bubble_sort"
        /\ inA' = list
        /\ inB' = bubble_outer(list, 0, 0).swap_counter
        /\ out' = bubble_sort_maj(list)

\* MajoranaOp([[i]],[1]) * MajoranaOp([[j]],[1]); out = <<g_i*g_j, g_j*g_i>>
MajMulModes ==
    /\ op = "init"
    /\ pc = "init"
    /\ UNCHANGED redvars
    /\ \E i \in 0..MaxMode, j \in 0..MaxMode :
        LET gi == MajoranaOp_from_lists(<<<<i>>>>, <<COne>>, FALSE)
            gj == MajoranaOp_from_lists(<<<<j>>>>, <<COne>>, FALSE)
        IN  /\ op' = "maj_mul_modes"
            /\ inA' = gi
            /\ inB' = gj
            /\ out' = <<MajoranaOp_mul(gi, gj), MajoranaOp_mul(gj, gi)>>

\* A.commutes_termwise(B) for two single-term MajoranaOp, with the products
\* A*B and B*A the flag is about
MajCommutesTermwise ==
    /\ op = "init"
    /\ pc = "init"
    /\ UNCHANGED redvars
    /\ \E nA \in {2 * k : k \in 1..MaxQubits}, nB \in {2 * k : k \in 1..MaxQubits} :
       \E a \in Bits(nA), b \in Bits(nB) :
        LET A == MajoranaOp_from_array(<<a>>, <<COne>>, nA, FALSE)
            B == MajoranaOp_from_array(<<b>>, <<COne>>, nB, FALSE)
        IN  /\ op' = "maj_commutes_termwise"
            /\ inA' = A
            /\ inB' = B
            /\ out' = [comm_flag |-> MajoranaOp_commutes_termwise(A, B),
                       AB |-> MajoranaOp_mul(A, B),
                       BA |-> MajoranaOp_mul(B, A)]

\* MajoranaOp([A],[1]).dagger for a list A of distinct modes: inB is the term,
\* out its dagger
MajDagger ==
    /\ op = "init"
    /\ pc = "init"
    /\ UNCHANGED redvars
    /\ \E A \in DistinctModeLists :
        /\ op' = "maj_dagger_term"
        /\ inA' = A
        /\ inB' = MajoranaOp_from_lists(<<A>>, <<COne>>, FALSE)
        /\ out' = MajoranaOp_dagger(MajoranaOp_from_lists(<<A>>, <<COne>>, FALSE))

\* A.cleanup() and A.cleanup().cleanup() of a PauliwordOp (duplicate rows allowed)
PauliCleanup ==
    /\ op = "init"
    /\ pc = "init"
    /\ UNCHANGED redvars
    /\ \E n \in 1..MaxQubits : \E t \in 0..MaxCleanupTerms :
       \E rows \in [1..t -> Bits(2 * n)], cs \in [1..t -> UnitSigns] :
        LET A == PauliwordOp(rows, cs, n)
            once == PauliwordOp_cleanup(A)
        IN  /\ op' = "pauli_cleanup"
            /\ inA' = A
            /\ inB' = <<>>
            /\ out' = <<once, PauliwordOp_cleanup(once)>>

\* A.cleanup() and A.cleanup().cleanup() of a MajoranaOp (duplicate rows allowed)
MajCleanup ==
    /\ op = "init"
    /\ pc = "init"
    /\ UNCHANGED redvars
    /\ \E n \in {2 * k : k \in 1..MaxQubits} : \E t \in 0..MaxCleanupTerms :
       \E rows \in [1..t -> Bits(n)], cs \in [1..t -> UnitSigns] :
        LET A == MajoranaOp_from_array(rows, cs, n, TRUE)
            once == MajoranaOp_cleanup(A)
        IN  /\ op' = "maj_cleanup"
            /\ inA' = A
            /\ inB' = <<>>
            /\ out' = <<once, MajoranaOp_cleanup(once)>>

\* A*B and B*A of two PauliwordOp with at least one term each
MulGeneral ==
    /\ op = "init"
    /\ pc = "init"
    /\ UNCHANGED redvars
    /\ \E n \in 1..MaxQubits : \E tA \in 1..MaxTerms, tB \in 1..MaxTerms :
       \E rowsA \in [1..tA -> Bits(2 * n)], csA \in [1..tA -> UnitSigns],
          rowsB \in [1..tB -> Bits(2 * n)], csB \in [1..tB -> {COne}] :
        LET A == PauliwordOp(rowsA, csA, n)
            B == PauliwordOp(rowsB, csB, n)
        IN  /\ op' = "mul"
            /\ inA' = A
            /\ inB' = B
            /\ out' = <<PauliwordOp_mul(A, B), PauliwordOp_mul(B, A)>>

\* StabilizerOp(rows, coeffs)
StabInit ==
    /\ op = "init"
    /\ pc = "init"
    /\ UNCHANGED redvars
    /\ \E n \in 1..MaxQubits : \E t \in 1..MaxStabTerms :
       \E rows \in [1..t -> Bits(2 * n)], cs \in [1..t -> UnitSigns \cup {CImag}] :
        /\ op' = "stab_init"
        /\ inA' = PauliwordOp(rows, cs, n)
        /\ inB' = <<>>
        /\ out' = StabilizerOp(rows, cs, n, "X")

\* S.update_sector(ref_state) for a StabilizerOp S and a basis state ref_state:
\* inA is S before the call, out is S after it
UpdateSector ==
    /\ op = "init"
    /\ pc = "init"
    /\ UNCHANGED redvars
    /\ \E n \in 1..MaxQubits : \E t \in 1..MaxStabTerms :
       \E rows \in [1..t -> Bits(2 * n)], cs \in [1..t -> UnitSigns],
          ref_state \in Bits(n) :
        LET S == StabilizerOp(rows, cs, n, "X")
        IN  /\ S.error = "none"
            /\ op' = "update_sector"
            /\ inA' = S
            /\ inB' = ref_state
            /\ out' = update_sector(S, ref_state)

\* A._rotate_by_single_Pword(Q) with angle None, Q a single term: inA and inB
\* are A and Q before the call, out holds the result and A and Q after it
RotateBySinglePword ==
    /\ op = "init"
    /\ pc = "init"
    /\ UNCHANGED redvars
    /\ \E n \in 1..MaxQubits : \E t \in 1..MaxTerms :
       \E rows \in [1..t -> Bits(2 * n)], cs \in [1..t -> UnitSigns],
          q \in Bits(2 * n), qc \in RotationCoeffs :
        LET A == PauliwordOp(rows, cs, n)
            Q == PauliwordOp(<<q>>, <<qc>>, n)
            call == rotate_by_single_Pword_ref(<<A, Q>>, 1, 2)
        IN  /\ op' = "rotate"
            /\ inA' = A
            /\ inB' = Q
            /\ out' = <<call.result, call.objects[1], call.objects[2]>>

\* A.basis_reconstruction(basis): inA is A, inB the basis
BasisReconstruction ==
    /\ op = "init"
    /\ pc = "init"
    /\ UNCHANGED redvars
    /\ \E n \in 1..MaxQubits : \E dim \in 1..MaxTerms, t \in 1..MaxTerms :
       \E basis_rows \in [1..dim -> Bits(2 * n)], rows \in [1..t -> Bits(2 * n)] :
        LET A == PauliwordOp(rows, Tup([r \in 1..t |-> COne]), n)
            operator_basis == PauliwordOp(basis_rows, Tup([r \in 1..dim |-> COne]), n)
        IN  /\ op' = "basis_reconstruction"
            /\ inA' = A
            /\ inB' = operator_basis
            /\ out' = basis_reconstruction(A, operator_basis)

\* S.stabilizer_rotations up to the first call of _recursive_rotate_onto_sqp,
\* for a StabilizerOp S of independent, mutually commuting rows
StabilizerRotationsStart ==
    /\ op = "init"
    /\ pc = "init"
    /\ \E n \in 1..MaxQubits : \E t \in 1..n :
       \E rows \in [1..t -> Bits(2 * n)], cs \in [1..t -> UnitSigns],
          target_sqp \in {"X", "Z"} :
        LET S == StabilizerOp(rows, cs, n, target_sqp)
        IN  /\ S.error = "none"
            /\ commutes(S, S)
            /\ pc' = "onto_sqp"
            /\ red_input' = S
            /\ basis' = PauliwordOp(rows, cs, n)
    /\ rotations' = <<>>
    /\ used_indices' = <<>>
    /\ UNCHANGED <<algvars, maj_basis, maj_rotations, maj_used_indices,
                   rotated_basis, red_result>>

\* one call of _recursive_rotate_onto_sqp on a basis that is not None
RecursiveRotateOntoSqp ==
    /\ pc = "onto_sqp"
    /\ basis # None
    /\ LET step == recursive_rotate_onto_sqp(basis, used_indices, red_input.n_qubits)
       IN  IF step.error # "none"
           THEN /\ pc' = "raised"
                /\ red_result' = step
                /\ UNCHANGED <<basis, rotations, used_indices>>
           ELSE /\ basis' = step.new_basis
                /\ rotations' = Append(rotations, step.rotation)
                /\ used_indices' = used_indices \o step.used
                /\ UNCHANGED <<pc, red_result>>
    /\ UNCHANGED <<algvars, red_input, maj_basis, maj_rotations, maj_used_indices,
                   rotated_basis>>

\* the call on None returns; the rest of stabilizer_rotations rotates S by the
\* rotations found and appends the rotations onto the target type
StabilizerRotationsReturn ==
    /\ pc = "onto_sqp"
    /\ basis = None
    /\ LET rotated_op == recursive_rotate_by_Pword(red_input, rotations)
           pass == target_pass(rotated_op.symp_matrix, red_input.target_sqp,
                               red_input.n_qubits,
                               [error |-> "none", rotations |-> rotations,
                                used |-> used_indices])
       IN  IF pass.error # "none"
           THEN /\ pc' = "raised"
                /\ red_result' = pass
                /\ UNCHANGED <<rotations, used_indices>>
           ELSE /\ pc' = "rotations_done"
                /\ rotations' = pass.rotations
                /\ used_indices' = pass.used
                /\ UNCHANGED red_result
    /\ UNCHANGED <<algvars, red_input, basis, maj_basis, maj_rotations,
                   maj_used_indices, rotated_basis>>

\* S.rotate_onto_single_qubit_paulis(), after the cached stabilizer_rotations
RotateOntoSingleQubitPaulis ==
    /\ pc = "rotations_done"
    /\ red_result' = rotate_onto_single_qubit_paulis(red_input, rotations)
    /\ pc' = "done"
    /\ UNCHANGED <<algvars, red_input, basis, rotations, used_indices, maj_basis,
                   maj_rotations, maj_used_indices, rotated_basis>>

NextStabRotations ==
    \/ StabilizerRotationsStart
    \/ RecursiveRotateOntoSqp
    \/ StabilizerRotationsReturn
    \/ RotateOntoSingleQubitPaulis

\* majorana_rotations(B).get_rotations() up to the call of _recursively_rotate,
\* for a basis B of independent, mutually commuting rows; the row order of B
\* does not matter, get_rotations starts from B.cleanup()
GetRotationsStart ==
    /\ op = "init"
    /\ pc = "init"
    /\ \E n \in {2 * k : k \in 1..MaxMajPairs} : \E t \in 1..MaxMajTerms :
       \E rows \in [1..t -> Bits(n)], cs \in [1..t -> UnitSigns] :
        LET majorana_basis == MajoranaOp_from_array(rows, cs, n, FALSE)
            start == delete_reduced_rows(MajoranaOp_cleanup(majorana_basis))
        IN  /\ \A r \in 1..(t - 1) : RowInt(rows[r]) < RowInt(rows[r + 1])
            /\ check_independent(rows)
            /\ \A i \in 1..t : \A j \in 1..t :
                  MajoranaOp_commutes_termwise(majorana_basis, majorana_basis)[i][j] = 1
            /\ red_input' = majorana_basis
            /\ rotated_basis' = IF start.singles_operator # NoneMaj
                                THEN <<start.singles_operator>> ELSE <<>>
            /\ maj_used_indices' = start.maj_z_pair_indices
            /\ maj_basis' = start.reduced_maj
    /\ pc' = "recursively_rotate"
    /\ maj_rotations' = <<>>
    /\ UNCHANGED <<algvars, basis, rotations, used_indices, red_result>>

\* one call of _recursively_rotate whose basis, once stripped, still has rows
RecursivelyRotate ==
    /\ pc = "recursively_rotate"
    /\ Len(maj_rotations) < MaxMajRotations
    /\ LET strip == delete_reduced_rows(maj_basis)
           used == maj_used_indices \cup strip.maj_z_pair_indices
       IN  /\ Len(strip.reduced_maj.symp_matrix) # 0
           /\ LET step == rotate_pivot(strip.reduced_maj, used)
              IN  /\ maj_rotations' = maj_rotations \o step.rotations
                  /\ rotated_basis' = Append(rotated_basis, step.rotated_term)
                  /\ maj_basis' = step.rot_basis_out2
           /\ maj_used_indices' = used
    /\ UNCHANGED <<algvars, pc, red_input, basis, rotations, used_indices, red_result>>

\* the call of _recursively_rotate that finds nothing left returns, and
\* get_rotations returns (rotated_basis, maj_rotations)
GetRotationsReturn ==
    /\ pc = "recursively_rotate"
    /\ LET strip == delete_reduced_rows(maj_basis)
       IN  /\ Len(strip.reduced_maj.symp_matrix) = 0
           /\ maj_used_indices' = maj_used_indices \cup strip.maj_z_pair_indices
           /\ maj_basis' = strip.reduced_maj
    /\ pc' = "rotations_found"
    /\ red_result' = [error |-> "none"]
    /\ UNCHANGED <<algvars, red_input, basis, rotations, used_indices, maj_rotations,
                   rotated_basis>>

NextMajRotations ==
    \/ GetRotationsStart
    \/ RecursivelyRotate
    \/ GetRotationsReturn

\* S._rotate_by_single_Pword(Q) with angle None for the rows and coefficients
\* of a StabilizerOp S and a single Pauli Q of coefficient 1, followed by the
\* StabilizerOp construction that closes rotate_onto_single_qubit_paulis
RotateStabilizer ==
    /\ op = "init"
    /\ pc = "init"
    /\ UNCHANGED redvars
    /\ \E n \in 1..MaxQubits : \E t \in 1..MaxTerms :
       \E rows \in [1..t -> Bits(2 * n)], cs \in [1..t -> UnitSigns], q \in Bits(2 * n) :
        LET rotated == rotate_by_single_Pword(PauliwordOp(rows, cs, n),
                                              PauliwordOp(<<q>>, <<COne>>, n))
        IN  /\ StabilizerOp(rows, cs, n, "X").error = "none"
            /\ op' = "rotate_stabilizer"
            /\ inA' = PauliwordOp(rows, cs, n)
            /\ inB' = PauliwordOp(<<q>>, <<COne>>, n)
            /\ out' = [rotated |-> rotated,
                       stabilizer |-> StabilizerOp(rotated.symp_matrix, rotated.coeff_vec,
                                                   n, "X")]

\* two operators in memory, each on its own arrays
two_operators(A, B) ==
    LET first == new_operator(<<>>, A)
        second == new_operator(first.mem, B)
    IN  [mem |-> second.mem, self |-> first.obj, other |-> second.obj]

\* the operands of a binary operation: A and B, or A on both sides
operands(A, B, same) ==
    IF same
    THEN [mem |-> new_operator(<<>>, A).mem,
          self |-> new_operator(<<>>, A).obj,
          other |-> new_operator(<<>>, A).obj]
    ELSE two_operators(A, B)

PauliOperands ==
    UNION {{PauliwordOp(rows, cs, n) :
               rows \in [1..t -> Bits(2 * n)], cs \in [1..t -> UnitSigns]} :
           n \in 1..MaxQubits, t \in 1..MaxTerms}

MajoranaOperands ==
    UNION {{MajoranaOp_from_array(rows, cs, 2 * n, TRUE) :
               rows \in [1..t -> Bits(2 * n)], cs \in [1..t -> UnitSigns]} :
           n \in 1..MaxQubits, t \in 1..MaxMajTerms}

\* A + B, A - B and A * B of two PauliwordOp in memory; inA is the memory and
\* the operands before the call, out the memory and the result after it
PauliArithmetic ==
    /\ op = "init"
    /\ pc = "init"
    /\ UNCHANGED redvars
    /\ \E A \in PauliOperands, same \in BOOLEAN :
       \E B \in {P \in SinglePaulis(A.n_qubits) : ~same \/ P = A},
          operation \in {"add", "sub", "mul"} :
        LET before == operands(A, B, same)
        IN  /\ op' = operation
            /\ inA' = before
            /\ inB' = <<>>
            /\ out' = CASE operation = "add" ->
                               PauliwordOp_add_mem(before.mem, before.self, before.other)
                        [] operation = "sub" ->
                               PauliwordOp_sub_mem(before.mem, before.self, before.other)
                        [] operation = "mul" ->
                               PauliwordOp_mul_mem(before.mem, before.self, before.other)

\* A.cleanup() of a PauliwordOp in memory
PauliCleanupInMemory ==
    /\ op = "init"
    /\ pc = "init"
    /\ UNCHANGED redvars
    /\ \E A \in PauliOperands :
        LET before == operands(A, A, TRUE)
        IN  /\ op' = "cleanup"
            /\ inA' = before
            /\ inB' = <<>>
            /\ out' = PauliwordOp_cleanup_mem(before.mem, before.self)

\* A.recursive_rotate_by_Pword([q]) of a PauliwordOp in memory
RecursiveRotateByPword ==
    /\ op = "init"
    /\ pc = "init"
    /\ UNCHANGED redvars
    /\ \E A \in PauliOperands : \E q \in Bits(2 * A.n_qubits) :
        LET before == operands(A, A, TRUE)
        IN  /\ op' = "recursive_rotate"
            /\ inA' = before
            /\ inB' = <<symplectic_to_string(q)>>
            /\ out' = recursive_rotate_by_Pword_mem(before.mem, before.self,
                                                    <<symplectic_to_string(q)>>)

\* A + B, A - B and A * B of two MajoranaOp in memory
MajoranaArithmetic ==
    /\ op = "init"
    /\ pc = "init"
    /\ UNCHANGED redvars
    /\ \E A \in MajoranaOperands, same \in BOOLEAN :
       \E B \in {M \in MajoranaOperands :
                    /\ M.n_sites = A.n_sites
                    /\ Len(M.symp_matrix) = 1
                    /\ ~same \/ M = A},
          operation \in {"maj_add", "maj_sub", "maj_mul"} :
        LET before == operands(A, B, same)
        IN  /\ op' = operation
            /\ inA' = before
            /\ inB' = <<>>
            /\ out' = CASE operation = "maj_add" ->
                               MajoranaOp_add_mem(before.mem, before.self, before.other)
                        [] operation = "maj_sub" ->
                               MajoranaOp_sub_mem(before.mem, before.self, before.other)
                        [] operation = "maj_mul" ->
                               MajoranaOp_mul_mem(before.mem, before.self, before.other)

\* A.cleanup() and A.dagger of a MajoranaOp in memory
MajoranaUnary ==
    /\ op = "init"
    /\ pc = "init"
    /\ UNCHANGED redvars
    /\ \E A \in MajoranaOperands, operation \in {"maj_cleanup", "maj_dagger"} :
        LET before == operands(A, A, TRUE)
        IN  /\ op' = operation
            /\ inA' = before
            /\ inB' = <<>>
            /\ out' = CASE operation = "maj_cleanup" ->
                               MajoranaOp_cleanup_mem(before.mem, before.self)
                        [] operation = "maj_dagger" ->
                               MajoranaOp_dagger_mem(before.mem, before.self)

NextReductions ==
    \/ NextStabRotations
    \/ NextMajRotations

NextStab ==
    \/ StabInit

NextSector ==
    \/ UpdateSector

NextRotate ==
    \/ RotateBySinglePword

NextReconstruction ==
    \/ BasisReconstruction

NextMajCommutes ==
    \/ MajCommutesTermwise

NextOperands ==
    \/ PauliArithmetic
    \/ PauliCleanupInMemory
    \/ RecursiveRotateByPword
    \/ RotateBySinglePword
    \/ MajoranaArithmetic
    \/ MajoranaUnary

NextDagger ==
    \/ MajDagger

NextStabilizerRotate ==
    \/ RotateStabilizer
    \/ NextStabRotations

NextCleanup ==
    \/ PauliCleanup
    \/ MajCleanup

NextMul ==
    \/ MulGeneral

NextAlgebra ==
    \/ MulSingle
    \/ BubbleSort
    \/ MajMulModes

Next ==
    \/ NextAlgebra
    \/ NextCleanup
    \/ NextMul
    \/ NextStab
    \/ NextSector
    \/ NextRotate
    \/ NextReconstruction
    \/ NextMajCommutes
    \/ NextOperands
    \/ NextDagger
    \/ NextStabilizerRotate
    \/ NextReductions

Spec == Init /\ [][Next]_vars

SpecAlgebra == Init /\ [][NextAlgebra]_vars

SpecCleanup == Init /\ [][NextCleanup]_vars

SpecMul == Init /\ [][NextMul]_vars

SpecStab == Init /\ [][NextStab]_vars

SpecSector == Init /\ [][NextSector]_vars

SpecRotate == Init /\ [][NextRotate]_vars

SpecReconstruction == Init /\ [][NextReconstruction]_vars

SpecMajCommutes == Init /\ [][NextMajCommutes]_vars

SpecOperands == Init /\ [][NextOperands]_vars

SpecDagger == Init /\ [][NextDagger]_vars

SpecStabilizerRotate == Init /\ [][NextStabilizerRotate]_vars

SpecReductions == Init /\ [][NextReductions]_vars

SpecMajRotations == Init /\ [][NextMajRotations]_vars

SpecStabRotations == Init /\ [][NextStabRotations]_vars

(***************************************************************************)
(* Reference definitions used by the properties                            *)
(***************************************************************************)
\* the phase of the product p*q of two single-qubit Paulis (the group table)
LetterPhase(p, q) ==
    IF p = "I" \/ q = "I" \/ p = q THEN COne
    ELSE IF <<p, q>> \in {<<"X", "Y">>, <<"Y", "Z">>, <<"Z", "X">>} THEN CImag
    ELSE CNeg(CImag)

\* the letter of the product p*q
LetterProd(p, q) ==
    IF p = "I" THEN q
    ELSE IF q = "I" THEN p
    ELSE IF p = q THEN "I"
    ELSE CHOOSE r \in {"X", "Y", "Z"} : r # p /\ r # q

\* the phase of the tensor product of the single-qubit products
RECURSIVE StringPhase(_, _)
StringPhase(s, t) ==
    IF s = <<>> THEN COne
    ELSE CMul(LetterPhase(s[1], t[1]), StringPhase(Tail(s), Tail(t)))

\* the phase formula as the claim words it
ClaimedPhase(a, b) ==
    CMul(CMul(SignPow(row_sum(bitwise_and(X_block(a), Z_block(b)))),
              NegIPow(Y_count(a) + Y_count(b))),
         IPow(Y_count(bitwise_xor(a, b))))

\* the number of pairs p < q with list[p] > list[q]
Inversions(list) ==
    Cardinality({pq \in (1..Len(list)) \X (1..Len(list)) :
                    pq[1] < pq[2] /\ list[pq[1]] > list[pq[2]]})

IsSortedAscending(list) == \A p \in 1..(Len(list) - 1) : list[p] <= list[p + 1]

SameElements(s, t) ==
    /\ Len(s) = Len(t)
    /\ \A v \in {s[k] : k \in 1..Len(s)} \cup {t[k] : k \in 1..Len(t)} :
          Cardinality({k \in 1..Len(s) : s[k] = v})
              = Cardinality({k \in 1..Len(t) : t[k] = v})

\* the row of width n with exactly the modes of S set
ModeRow(S, n) == Tup([k \in 1..n |-> IF (k - 1) \in S THEN 1 ELSE 0])

\* the rows an operator holds, as a set
RowSet(P) == {P.symp_matrix[r] : r \in 1..Len(P.symp_matrix)}

\* the coefficient an operator gives a bit-vector: the sum over its rows equal to it
CoeffOf(P, row) ==
    SumCoeffs(SelectSeq(
        Tup([r \in 1..Len(P.symp_matrix) |->
            IF P.symp_matrix[r] = row THEN P.coeff_vec[r] ELSE CZero]),
        LAMBDA c : TRUE))

SameTerms(P, Q) ==
    /\ RowSet(P) = RowSet(Q)
    /\ \A row \in RowSet(P) : CoeffOf(P, row) = CoeffOf(Q, row)

\* XOR of the rows of symp selected by the index set S
RECURSIVE XorRows(_, _, _)
XorRows(symp, S, len) ==
    IF S = {} THEN Zeros(len)
    ELSE LET k == CHOOSE x \in S : TRUE
         IN  bitwise_xor(symp[k], XorRows(symp, S \ {k}, len))

\* linear independence over GF(2): no non-empty subset of the rows XORs to zero
IndependentRows(symp) ==
    \A S \in SUBSET (1..Len(symp)) :
        S # {} => XorRows(symp, S, Len(symp[1])) # Zeros(Len(symp[1]))

(***************************************************************************)
(* Properties                                                              *)
(***************************************************************************)
\* C1: for single Pauli strings a, b with coefficient 1, a*b is the single row
\* a XOR b, its string is the letterwise product, and its coefficient is the
\* phase of the Pauli-group product, which equals the claimed formula;
\* X*Y = +i Z and Y*X = -i Z.
C1_MulSinglePhase ==
    op = "mul_single" =>
        LET a == inA.symp_matrix[1]
            b == inB.symp_matrix[1]
            sa == symplectic_to_string(a)
            sb == symplectic_to_string(b)
        IN  /\ out.symp_matrix = <<bitwise_xor(a, b)>>
            /\ symplectic_to_string(out.symp_matrix[1])
                   = Tup([q \in 1..Len(sa) |-> LetterProd(sa[q], sb[q])])
            /\ out.coeff_vec = <<StringPhase(sa, sb)>>
            /\ out.coeff_vec = <<ClaimedPhase(a, b)>>
            /\ (sa = <<"X">> /\ sb = <<"Y">>) =>
                   out = PauliwordOp(<<string_to_symplectic(<<"Z">>)>>, <<CImag>>, 1)
            /\ (sa = <<"Y">> /\ sb = <<"X">>) =>
                   out = PauliwordOp(<<string_to_symplectic(<<"Z">>)>>, <<CNeg(CImag)>>, 1)

C1_Witness ==
    /\ op = "mul_single"
    /\ symplectic_to_string(inA.symp_matrix[1]) = <<"X", "Y">>
    /\ symplectic_to_string(inB.symp_matrix[1]) = <<"Y", "Z">>
    /\ out.coeff_vec = <<CInt(-1)>>

\* C2: for a single Pauli term p with coefficient 1, p*p is the single
\* all-zero row with coefficient exactly +1.
C2_Involution ==
    (op = "mul_single" /\ inA = inB) =>
        out = PauliwordOp(<<Zeros(2 * inA.n_qubits)>>, <<COne>>, inA.n_qubits)

C2_Witness ==
    /\ op = "mul_single"
    /\ inA = inB
    /\ symplectic_to_string(inA.symp_matrix[1]) = <<"Y", "Z">>
    /\ out.coeff_vec = <<COne>>

\* C5: for single-mode Majorana operators g_i, g_j with coefficient 1: if
\* i # j then g_i*g_j and g_j*g_i have the same single row {i,j} and
\* coefficients that are negatives of each other; if i = j then g_i*g_i is
\* the identity row with coefficient +1; also for different n_sites.
C5_MajoranaAnticommute ==
    op = "maj_mul_modes" =>
        LET i == term_modes(inA.symp_matrix[1])[1]
            j == term_modes(inB.symp_matrix[1])[1]
            n == IF inA.n_sites < inB.n_sites THEN inB.n_sites ELSE inA.n_sites
        IN  /\ inA.coeff_vec = <<COne>> /\ inB.coeff_vec = <<COne>>
            /\ i # j =>
                 /\ out[1].symp_matrix = <<ModeRow({i, j}, n)>>
                 /\ out[2].symp_matrix = <<ModeRow({i, j}, n)>>
                 /\ out[1].coeff_vec[1] \in {CInt(1), CInt(-1)}
                 /\ out[1].coeff_vec = <<CNeg(out[2].coeff_vec[1])>>
            /\ i = j =>
                 /\ out[1].symp_matrix = <<Zeros(n)>>
                 /\ out[1].coeff_vec = <<COne>>
                 /\ MajoranaOp_eq(out[1],
                        MajoranaOp_from_lists(<<<<>>>>, <<COne>>, FALSE))

C5_Witness ==
    /\ op = "maj_mul_modes"
    /\ inA.n_sites = 2
    /\ inB.n_sites = 4
    /\ out[1].symp_matrix = <<ModeRow({0, 3}, 4)>>
    /\ out[1].coeff_vec = <<CInt(1)>>
    /\ out[2].coeff_vec = <<CInt(-1)>>

\* C6: bubble_sort_maj returns the list sorted ascending and sign +1 if the
\* number of adjacent swaps performed, which is the number of strict
\* inversions of the input, is even and -1 if odd; a sorted or empty input
\* gives zero swaps and +1; [2,0,1] gives ([0,1,2], +1).
C6_BubbleSortSign ==
    op = "bubble_sort" =>
        /\ IsSortedAscending(out.arr)
        /\ SameElements(out.arr, inA)
        /\ inB = Inversions(inA)
        /\ out.sign = (IF Inversions(inA) % 2 = 0 THEN 1 ELSE -1)
        /\ IsSortedAscending(inA) => (inB = 0 /\ out.sign = 1 /\ out.arr = inA)
        /\ inA = <<2, 0, 1>> => (out.arr = <<0, 1, 2>> /\ out.sign = 1)

C6_Witness ==
    /\ op = "bubble_sort"
    /\ inA = <<3, 1, 1, 0>>
    /\ inB = 5
    /\ out = [arr |-> <<0, 1, 1, 3>>, sign |-> -1]

C4_CleanupIdempotent ==
    op \in {"pauli_cleanup", "maj_cleanup"} => out[2] = out[1]

C4_Witness ==
    /\ op = "maj_cleanup"
    /\ inA.symp_matrix = <<(<<0, 1, 1, 0>>), (<<0, 0, 1, 1>>), (<<0, 1, 1, 0>>)>>
    /\ inA.coeff_vec = <<CInt(1), CInt(-1), CInt(1)>>
    /\ out[1].symp_matrix = <<(<<0, 0, 1, 1>>), (<<0, 1, 1, 0>>)>>
    /\ out[1].coeff_vec = <<CInt(-1), CInt(2)>>

\* C7: StabilizerOp construction succeeds if and only if every coefficient
\* is +1 or -1 and the rows are linearly independent over GF(2); appending
\* to an independent row set an XOR-combination of its rows makes the
\* construction fail, and no object is returned.
C7_StabilizerConstruction ==
    op = "stab_init" =>
        LET rows == inA.symp_matrix
            t == Len(rows)
            ok == /\ \A r \in 1..t : inA.coeff_vec[r] \in {CInt(1), CInt(-1)}
                  /\ IndependentRows(rows)
        IN  /\ (out.error = "none") <=> ok
            /\ out.error = "none" =>
                   (out.symp_matrix = rows /\ out.coeff_vec = inA.coeff_vec)
            /\ out.error # "none" => DOMAIN out = {"error"}
            /\ (/\ t >= 2
                /\ IndependentRows(SubSeq(rows, 1, t - 1))
                /\ \E S \in SUBSET (1..(t - 1)) :
                       rows[t] = XorRows(rows, S, Len(rows[1])))
               => out.error # "none"

C7_Witness ==
    /\ op = "stab_init"
    /\ inA.n_qubits = 2
    /\ Len(inA.symp_matrix) = 3
    /\ Tup([r \in 1..3 |-> symplectic_to_string(inA.symp_matrix[r])])
           = <<(<<"X", "X">>), (<<"Z", "Z">>), (<<"Y", "Y">>)>>
    /\ inA.coeff_vec = <<CInt(1), CInt(-1), CInt(1)>>
    /\ out.error = "ValueError: The supplied stabilizers are not independent"

(***************************************************************************)
(* Reductions onto single-qubit Paulis and single mode pairs               *)
(***************************************************************************)
\* B conjugated by each rotation of Rs in order: R * B * R.dagger
RECURSIVE conjugate_all(_, _)
conjugate_all(B, Rs) ==
    IF Rs = <<>> THEN B
    ELSE LET next == conjugate_by(Rs[1], B)
         IN  After(next, conjugate_all(next, Tail(Rs)))

\* the terms of a MajoranaOp: the modes of each row with its coefficient
MajTerms(M) ==
    {<<term_modes(M.symp_matrix[r]), M.coeff_vec[r]>> : r \in 1..Len(M.symp_matrix)}

\* the terms held by the operators of the list rotated_basis
ReportedTerms ==
    UNION {MajTerms(rotated_basis[k]) : k \in 1..Len(rotated_basis)}

\* the rows a call of _recursively_rotate works on: its argument, stripped
WorkingRows(b) == Len(delete_reduced_rows(b).reduced_maj.symp_matrix)

\* C8: when get_rotations has returned, the input basis conjugated by the
\* emitted rotations, in order, has exactly the terms reported in
\* rotated_basis: same rows, same coefficients, none missing, none extra.
C8_RoundTrip ==
    IF pc = "rotations_found"
    THEN MajTerms(conjugate_all(red_input, maj_rotations)) = ReportedTerms
    ELSE TRUE

\* C9: for every StabilizerOp of independent, mutually commuting rows with
\* coefficients +/-1, stabilizer_rotations raises nothing, and
\* rotate_onto_single_qubit_paulis returns one single-qubit Pauli of the
\* target type per row, each on a qubit of its own.
C9_RotatesOntoTarget ==
    /\ pc # "raised"
    /\ IF pc = "done"
       THEN /\ red_result.error = "none"
            /\ Len(red_result.symp_matrix) = Len(red_input.symp_matrix)
            /\ \A r \in 1..Len(red_result.symp_matrix) :
                  LET row == red_result.symp_matrix[r]
                  IN  /\ row_sum(row) = 1
                      /\ (red_input.target_sqp = "X") => row_sum(X_block(row)) = 1
                      /\ (red_input.target_sqp = "Z") => row_sum(Z_block(row)) = 1
            /\ \A r1, r2 \in 1..Len(red_result.symp_matrix) :
                  r1 # r2 => red_result.symp_matrix[r1] # red_result.symp_matrix[r2]
       ELSE TRUE

\* C10: in both reductions every recursive call gets a working basis with
\* strictly fewer rows than the basis of the step that makes the call.
C10_RecursionShrinks ==
    [][/\ (pc = "onto_sqp" /\ pc' = "onto_sqp")
            => n_terms(basis') < n_terms(basis)
       /\ (pc = "recursively_rotate" /\ pc' = "recursively_rotate")
            => WorkingRows(maj_basis') < WorkingRows(maj_basis)]_vars

(***************************************************************************)
(* update_sector                                                           *)
(***************************************************************************)
\* the number of qubits where row has a Z or Y and ref_state holds 1
Overlap(row, ref_state) ==
    Cardinality({k \in 1..Len(ref_state) :
                    row[Len(ref_state) + k] = 1 /\ ref_state[k] = 1})

\* C11: update_sector(ref_state) sets the coefficient of each row i to
\* (-1)^popcount(Z_block_i AND ref_state) (ZZ gives +1 on [1,1] and -1 on
\* [1,0]), leaves the bit-matrix unchanged and leaves every coefficient in
\* {+1,-1}.
C11_UpdateSector ==
    op = "update_sector" =>
        /\ out.symp_matrix = inA.symp_matrix
        /\ Len(out.coeff_vec) = Len(inA.symp_matrix)
        /\ \A r \in 1..Len(inA.symp_matrix) :
              /\ out.coeff_vec[r] \in {CInt(1), CInt(-1)}
              /\ (out.coeff_vec[r] = CInt(1)) <=> (Overlap(inA.symp_matrix[r], inB) % 2 = 0)
              /\ (inA.symp_matrix[r] = <<0, 0, 1, 1>> /\ inB = <<1, 1>>)
                    => out.coeff_vec[r] = CInt(1)
              /\ (inA.symp_matrix[r] = <<0, 0, 1, 1>> /\ inB = <<1, 0>>)
                    => out.coeff_vec[r] = CInt(-1)

C11_Witness ==
    /\ op = "update_sector"
    /\ inA.symp_matrix = <<(<<0, 0, 1, 1>>), (<<1, 1, 0, 0>>)>>
    /\ inA.coeff_vec = <<CInt(1), CInt(-1)>>
    /\ inB = <<1, 0>>
    /\ out.coeff_vec = <<CInt(-1), CInt(1)>>

\* C12 as stated: for n = 2, after update_sector with reference state [1,0]
\* on the stabilizer ZI, the resulting coefficient is +1.
C12_ZI_PlusOne ==
    (op = "update_sector" /\ inA.symp_matrix = <<(<<0, 0, 1, 0>>)>> /\ inB = <<1, 0>>)
        => out.coeff_vec = <<CInt(1)>>

\* C12, amended: for n = 2, after update_sector with reference state [1,0]
\* on the stabilizer ZI, the resulting coefficient is -1 (and +1 on [0,1]).
C12_ZI_MinusOne ==
    (op = "update_sector" /\ inA.symp_matrix = <<(<<0, 0, 1, 0>>)>>)
        => /\ inB = <<1, 0>> => out.coeff_vec = <<CInt(-1)>>
           /\ inB = <<0, 1>> => out.coeff_vec = <<CInt(1)>>

C12_Witness ==
    /\ op = "update_sector"
    /\ inA.symp_matrix = <<(<<0, 0, 1, 0>>)>>
    /\ inA.coeff_vec = <<CInt(1)>>
    /\ inB = <<1, 0>>
    /\ out.coeff_vec = <<CInt(-1)>>

(***************************************************************************)
(* _rotate_by_single_Pword                                                 *)
(***************************************************************************)
\* two Pauli strings anticommute when they differ, both non-identity, at an
\* odd number of qubits
Anticommute(a, b) ==
    LET s == symplectic_to_string(a)
        t == symplectic_to_string(b)
    IN  Cardinality({k \in 1..Len(s) : s[k] # "I" /\ t[k] # "I" /\ s[k] # t[k]}) % 2 = 1

\* A rotated by Q term by term, before any merging: a commuting row as it
\* is, an anticommuting row a as -i * (a*Q), the product taken letter by letter
RotatedTermwise(A, q) ==
    PauliwordOp(
        Tup([r \in 1..n_terms(A) |->
            IF Anticommute(A.symp_matrix[r], q)
            THEN bitwise_xor(A.symp_matrix[r], q) ELSE A.symp_matrix[r]]),
        Tup([r \in 1..n_terms(A) |->
            IF Anticommute(A.symp_matrix[r], q)
            THEN CMul(CNeg(CImag),
                      CMul(StringPhase(symplectic_to_string(A.symp_matrix[r]),
                                       symplectic_to_string(q)),
                           A.coeff_vec[r]))
            ELSE A.coeff_vec[r]]),
        A.n_qubits)

DistinctRows(P) == Cardinality(RowSet(P)) = n_terms(P)

\* C13: _rotate_by_single_Pword(Q) with angle None: every row of A commuting
\* with Q is in the result with its coefficient, every row a anticommuting
\* with Q is replaced by -i*(a*Q) on the row a XOR Q (equal rows summed); a
\* coefficient of Q other than 1 makes no difference to the result, raises
\* nothing, and Q keeps its coefficient.
C13_RotateBySinglePword ==
    op = "rotate" =>
        /\ SameTerms(out[1], RotatedTermwise(inA, inB.symp_matrix[1]))
        /\ DistinctRows(out[1])
        /\ DistinctRows(inA) =>
              \A r \in 1..n_terms(inA) :
                 ~Anticommute(inA.symp_matrix[r], inB.symp_matrix[1]) =>
                    \E m \in 1..n_terms(out[1]) :
                        /\ out[1].symp_matrix[m] = inA.symp_matrix[r]
                        /\ out[1].coeff_vec[m] = inA.coeff_vec[r]
        /\ out[3] = inB

C13_Witness ==
    /\ op = "rotate"
    /\ Tup([r \in 1..n_terms(inA) |-> symplectic_to_string(inA.symp_matrix[r])])
           = <<(<<"Z", "I">>), (<<"X", "X">>)>>
    /\ inA.coeff_vec = <<CInt(1), CInt(-1)>>
    /\ symplectic_to_string(inB.symp_matrix[1]) = <<"Y", "I">>
    /\ inB.coeff_vec = <<CImag>>
    /\ Tup([r \in 1..n_terms(out[1]) |-> symplectic_to_string(out[1].symp_matrix[r])])
           = <<(<<"Z", "X">>), (<<"X", "I">>)>>
    /\ out[1].coeff_vec = <<CInt(-1), CInt(-1)>>
    /\ out[3].coeff_vec = <<CImag>>

(***************************************************************************)
(* MajoranaOp.commutes_termwise                                            *)
(***************************************************************************)
\* (sa*sb + o + 1) mod 2 for rows a and b: sa, sb the support sizes and o the
\* number of shared modes among the first min(n_a, n_b) positions
ClaimedParity(a, b) ==
    LET sa == Cardinality({k \in 1..Len(a) : a[k] = 1})
        sb == Cardinality({k \in 1..Len(b) : b[k] = 1})
        o == Cardinality({k \in 1..Len(a) : k <= Len(b) /\ a[k] = 1 /\ b[k] = 1})
    IN  (sa * sb + o + 1) % 2

\* the entry of comm_flag for the two terms marks them as commuting
MarkedCommuting == out.comm_flag[1][1] # 0

\* C14 as stated: commutes_termwise marks a and b as commuting if and only
\* if (sa*sb + o + 1) mod 2 == 0.
C14_CommuteIffZero ==
    op = "maj_commutes_termwise" =>
        (MarkedCommuting <=> ClaimedParity(inA.symp_matrix[1], inB.symp_matrix[1]) = 0)

\* C14, amended: commutes_termwise marks a and b as commuting (entry 1) if
\* and only if (sa*sb + o + 1) mod 2 == 1, and these are the pairs whose
\* products a*b and b*a are equal.
C14_CommuteIffOne ==
    op = "maj_commutes_termwise" =>
        /\ out.comm_flag[1][1] \in {0, 1}
        /\ MarkedCommuting <=> ClaimedParity(inA.symp_matrix[1], inB.symp_matrix[1]) = 1
        /\ MarkedCommuting <=> MajoranaOp_eq(out.AB, out.BA)

C14_Witness ==
    /\ op = "maj_commutes_termwise"
    /\ inA.symp_matrix = <<(<<1, 1>>)>>
    /\ inB.symp_matrix = <<(<<0, 1, 1, 0>>)>>
    /\ out.comm_flag = <<(<<0>>)>>
    /\ out.AB.coeff_vec # out.BA.coeff_vec

(***************************************************************************)
(* basis_reconstruction                                                    *)
(***************************************************************************)
\* the basis rows a 0/1 vector selects
Selected(vec) == {i \in 1..Len(vec) : vec[i] = 1}

InSpan(row, basis_symp) ==
    \E S \in SUBSET (1..Len(basis_symp)) : row = XorRows(basis_symp, S, Len(row))

\* C15: for a basis of GF(2)-independent rows and an operator whose rows all
\* lie in its span, basis_reconstruction returns one 0/1 vector per operator
\* row, indexed by basis row, and the XOR of the selected basis rows is that
\* operator row.
C15_Reconstruction ==
    (/\ op = "basis_reconstruction"
     /\ IndependentRows(inB.symp_matrix)
     /\ \A r \in 1..n_terms(inA) : InSpan(inA.symp_matrix[r], inB.symp_matrix))
        => /\ out.error = "none"
           /\ Len(out.op_reconstruction) = n_terms(inA)
           /\ \A r \in 1..n_terms(inA) :
                 /\ out.op_reconstruction[r] \in [1..n_terms(inB) -> {0, 1}]
                 /\ XorRows(inB.symp_matrix, Selected(out.op_reconstruction[r]),
                            2 * inA.n_qubits) = inA.symp_matrix[r]

C15_Witness ==
    /\ op = "basis_reconstruction"
    /\ inB.symp_matrix = <<(<<1, 1, 0, 0>>), (<<0, 1, 1, 1>>)>>
    /\ inA.symp_matrix = <<(<<1, 0, 1, 1>>), (<<0, 1, 1, 1>>)>>
    /\ out.op_reconstruction = <<(<<1, 1>>), (<<0, 1>>)>>

\* C16: when a target row cannot be expressed as an XOR-combination of the
\* basis rows, basis_reconstruction reports the failure instead of returning
\* a coefficient vector that does not reproduce the target.
C16_NotInSpanReported ==
    (/\ op = "basis_reconstruction"
     /\ \E r \in 1..n_terms(inA) : ~InSpan(inA.symp_matrix[r], inB.symp_matrix))
        => out.error # "none"

(***************************************************************************)
(* cleanup keeps every distinct bit-vector                                 *)
(***************************************************************************)
\* C17: cleanup (PauliwordOp and MajoranaOp) merges rows but never discards
\* a distinct bit-vector: the result has exactly one row per distinct
\* bit-vector of the input, with the sum of that bit-vector's coefficients,
\* and a row whose coefficients sum to exactly zero is kept (removing such
\* rows is left to cleanup_zeros).
C17_CleanupKeepsRows ==
    op \in {"pauli_cleanup", "maj_cleanup"} =>
        /\ RowSet(out[1]) = RowSet(inA)
        /\ Cardinality(RowSet(out[1])) = Len(out[1].symp_matrix)
        /\ \A row \in RowSet(inA) : CoeffOf(out[1], row) = CoeffOf(inA, row)

(***************************************************************************)
(* A * B is cleaned up                                                     *)
(***************************************************************************)
\* the products a*b of all ordered pairs of rows, un-merged, each computed
\* letter by letter from the Pauli group table
PairProducts(A, B) ==
    LET nB == n_terms(B)
        ia(p) == (p - 1) \div nB + 1
        ib(p) == ((p - 1) % nB) + 1
    IN  PauliwordOp(
            Tup([p \in 1..(n_terms(A) * nB) |->
                bitwise_xor(A.symp_matrix[ia(p)], B.symp_matrix[ib(p)])]),
            Tup([p \in 1..(n_terms(A) * nB) |->
                CMul(StringPhase(symplectic_to_string(A.symp_matrix[ia(p)]),
                                 symplectic_to_string(B.symp_matrix[ib(p)])),
                     CMul(A.coeff_vec[ia(p)], B.coeff_vec[ib(p)]))]),
            A.n_qubits)

\* C18: for all PauliwordOp A and B (A possibly with duplicate rows, B with
\* one or more terms) the result of A*B is cleaned up: no two rows of the
\* result have the same bit-vector, and each row's coefficient is the sum
\* over the ordered pairs (a, b) with a XOR b equal to that row.
C18_ProductCleaned ==
    op = "mul" =>
        /\ Cardinality(RowSet(out[1])) = n_terms(out[1])
        /\ RowSet(out[1]) = RowSet(PairProducts(inA, inB))
        /\ \A m \in 1..n_terms(out[1]) :
              out[1].coeff_vec[m] = CoeffOf(PairProducts(inA, inB), out[1].symp_matrix[m])


(***************************************************************************)
(* C19: no arithmetic or rotation operation mutates its operands           *)
(***************************************************************************)
InMemoryOps ==
    {"add", "sub", "mul", "cleanup", "recursive_rotate",
     "maj_add", "maj_sub", "maj_mul", "maj_cleanup", "maj_dagger"}

\* C19: after A+B, A-B, A*B, cleanup, dagger, _rotate_by_single_Pword or
\* recursive_rotate_by_Pword, every array that existed before the call (the
\* bit-matrix and the coefficient vector of every operand) holds what it held
\* before the call, and the operands are still on those arrays.
C19_NoOperandMutated ==
    /\ op \in InMemoryOps =>
          /\ Len(out.mem) >= Len(inA.mem)
          /\ \A k \in 1..Len(inA.mem) : out.mem[k] = inA.mem[k]
    /\ op = "rotate" => out[2] = inA /\ out[3] = inB

\* g0*g1 - (-1)*g0*g1 = 2*g0*g1 with the subtrahend copied, negated in place on the
\* copy, and left at -1
C19_Witness ==
    /\ op = "maj_sub"
    /\ inA.self # inA.other
    /\ inA.mem[inA.other.symp_matrix] = <<<<1, 1>>>>
    /\ inA.mem[inA.other.coeff_vec] = <<CInt(-1)>>
    /\ out.mem[inA.other.coeff_vec] = <<CInt(-1)>>
    /\ \E k \in (Len(inA.mem) + 1)..Len(out.mem) : out.mem[k] = <<CInt(1)>>
    /\ MajoranaOp_at(out.mem, out.obj).symp_matrix = <<<<1, 1>>>>
    /\ MajoranaOp_at(out.mem, out.obj).coeff_vec = <<CInt(2)>>

(***************************************************************************)
(* C20: the pivot row is chosen by weight                                  *)
(***************************************************************************)
Weights(symp) == {row_sum(symp[r]) : r \in 1..Len(symp)}

MinWeightIn(row, symp) == \A w \in Weights(symp) : row_sum(row) <= w

MaxWeightIn(row, symp) == \A w \in Weights(symp) : row_sum(row) >= w

\* the working basis of a call of _recursively_rotate: maj_basis without its
\* reduced rows
WorkingMajBasis == delete_reduced_rows(maj_basis).reduced_maj

\* C20: at every reduction step the pivot row is chosen by weight: a step of
\* _recursive_rotate_onto_sqp takes a row of minimum weight of its basis, and
\* a step of _recursively_rotate takes a row of maximum weight of its working
\* basis.
C20_PivotByWeight ==
    [][/\ (pc = "onto_sqp" /\ basis # None) =>
             MinWeightIn(sqp_pivot_row(basis), basis.symp_matrix)
       /\ (pc = "recursively_rotate" /\ maj_rotations' # maj_rotations) =>
             MaxWeightIn(pivot_row_of(WorkingMajBasis), WorkingMajBasis.symp_matrix)]_vars

(***************************************************************************)
(* C21: the pivot position                                                 *)
(***************************************************************************)
\* the number of rows of symp with a set bit at position pos (from 0)
ColumnCount(symp, pos) == Cardinality({r \in 1..Len(symp) : symp[r][pos + 1] = 1})

\* positions (from 0) where row has a set bit and that are not in used
Candidates(row, used) == {q \in 0..(Len(row) - 1) : row[q + 1] = 1 /\ q \notin used}

\* pos is a candidate of least column count in symp
LeastDisturbing(pos, row, used, symp) ==
    /\ pos \in Candidates(row, used)
    /\ \A q \in Candidates(row, used) : ColumnCount(symp, pos) <= ColumnCount(symp, q)

UsedSoFar == {used_indices[k] : k \in 1..Len(used_indices)}

\* the pivot position of the call of _recursive_rotate_onto_sqp on basis
PauliPivotPoint ==
    sqp_pivot_point(setdiff1d(where(sqp_pivot_row(basis)), used_indices),
        Tup([k \in 1..Len(sqp_pivot_row(basis)) |->
            sqp_pivot_row(basis)[k] * col_sums(basis.symp_matrix, Len(sqp_pivot_row(basis)))[k]]))

\* used_indices of a call of _recursively_rotate once the stripped rows are recorded
MajUsedSoFar == maj_used_indices \cup delete_reduced_rows(maj_basis).maj_z_pair_indices

\* the pivot position of the call of _recursively_rotate on maj_basis
MajPivotPoint ==
    pivot_point_of(WorkingMajBasis, pivot_row_of(WorkingMajBasis), MajUsedSoFar)

\* C21: at every reduction step of both variants the pivot position is a
\* position where the pivot row has a set bit, is not in used_indices, and has
\* the smallest column-occurrence count across the working basis among such
\* positions.
C21_PivotPosition ==
    [][/\ (pc = "onto_sqp" /\ pc' = "onto_sqp" /\ rotations' # rotations) =>
             LeastDisturbing(PauliPivotPoint, sqp_pivot_row(basis), UsedSoFar,
                             basis.symp_matrix)
       /\ (pc = "recursively_rotate" /\ maj_rotations' # maj_rotations) =>
             LeastDisturbing(MajPivotPoint, pivot_row_of(WorkingMajBasis), MajUsedSoFar,
                             WorkingMajBasis.symp_matrix)]_vars

(***************************************************************************)
(* C22: every stripped row is emitted                                      *)
(***************************************************************************)
\* row is supported on exactly the two modes of one mode pair
SingleModePair(row) ==
    \E k \in 0..(Len(row) \div 2 - 1) :
        \A j \in 1..Len(row) : row[j] = 1 <=> j \in {2 * k + 1, 2 * k + 2}

\* all the rows of the operators of a list, in order
RECURSIVE EmittedRows(_)
EmittedRows(ops) ==
    IF ops = <<>> THEN <<>> ELSE ops[1].symp_matrix \o EmittedRows(Tail(ops))

\* C22: when get_rotations returns, rotated_basis holds exactly one
\* single-mode-pair term for each row of the cleaned input basis: every row
\* stripped by _delete_reduced_rows has been emitted.
C22_StrippedRowsEmitted ==
    pc = "rotations_found" =>
        /\ Len(EmittedRows(rotated_basis)) = Len(MajoranaOp_cleanup(red_input).symp_matrix)
        /\ \A m \in 1..Len(EmittedRows(rotated_basis)) :
              SingleModePair(EmittedRows(rotated_basis)[m])

(***************************************************************************)
(* C23: a term with its phase factor is self-adjoint                       *)
(***************************************************************************)
\* the row with a set bit at exactly the modes of the list A
RowOfModes(A, n) == Tup([k \in 1..n |-> IF \E p \in 1..Len(A) : A[p] = k - 1 THEN 1 ELSE 0])

\* C23: for every list A of distinct modes, the dagger of MajoranaOp([A],[1])
\* has the row of A and exactly the coefficient of MajoranaOp([A],[1]).
C23_TermSelfAdjoint ==
    op = "maj_dagger_term" =>
        /\ inB.symp_matrix = <<RowOfModes(inA, inB.n_sites)>>
        /\ out.symp_matrix = inB.symp_matrix
        /\ out.coeff_vec = inB.coeff_vec
        /\ out.n_sites = inB.n_sites

\* gamma_2 gamma_0 = -gamma_0 gamma_2, with the phase i: coefficient -i, and
\* the dagger has coefficient -i again
C23_Witness ==
    /\ op = "maj_dagger_term"
    /\ inA = <<2, 0>>
    /\ inB.coeff_vec = <<<<0, -1, 0>>>>
    /\ out.symp_matrix = <<<<1, 0, 1, 0>>>>
    /\ out.coeff_vec = <<<<0, -1, 0>>>>

(***************************************************************************)
(* C24: commutes_termwise agrees with multiplication                       *)
(***************************************************************************)
\* the products a*b and b*a are one term each, on the same row
SingleTermProducts ==
    /\ Len(out.AB.symp_matrix) = 1
    /\ Len(out.BA.symp_matrix) = 1
    /\ out.AB.symp_matrix = out.BA.symp_matrix

\* C24: for single Majorana terms a and b, the entry of commutes_termwise is
\* 1 exactly when a*b and b*a have equal coefficients and 0 exactly when their
\* coefficients are negatives of each other.
C24_AgreesWithMul ==
    op = "maj_commutes_termwise" =>
        /\ SingleTermProducts
        /\ out.comm_flag[1][1] = 1 <=> out.AB.coeff_vec[1] = out.BA.coeff_vec[1]
        /\ out.comm_flag[1][1] = 0 <=> out.AB.coeff_vec[1] = CNeg(out.BA.coeff_vec[1])

\* gamma_0 and gamma_1 anticommute: the entry is 0, and the products g0*g1 and
\* g1*g0 are the row 11 with coefficients 1 and -1
C24_Witness ==
    /\ op = "maj_commutes_termwise"
    /\ inA.symp_matrix = <<(<<1, 0>>)>>
    /\ inB.symp_matrix = <<(<<0, 1>>)>>
    /\ out.comm_flag = <<(<<0>>)>>
    /\ out.AB.coeff_vec = <<CInt(1)>>
    /\ out.BA.coeff_vec = <<CInt(-1)>>

(***************************************************************************)
(* C25: a Clifford rotation keeps a stabilizer set valid                   *)
(***************************************************************************)
\* the row a after the rotation about q
RotatedRow(a, q) == IF Anticommute(a, q) THEN bitwise_xor(a, q) ELSE a

\* the rows of Q are the rotated rows of A in some order, with the pairwise
\* commutation of A
SameCommutationPattern(A, Q, q) ==
    \E f \in Permutations(1..n_terms(A)) :
        /\ \A i \in 1..n_terms(A) : Q.symp_matrix[f[i]] = RotatedRow(A.symp_matrix[i], q)
        /\ \A i \in 1..n_terms(A) : \A j \in 1..n_terms(A) :
              Anticommute(Q.symp_matrix[f[i]], Q.symp_matrix[f[j]])
                  <=> Anticommute(A.symp_matrix[i], A.symp_matrix[j])

\* C25: a Clifford rotation by a single Pauli of coefficient 1 maps an operator
\* of independent rows with coefficients +1 or -1 to one with as many rows,
\* still independent, coefficients still +1 or -1 and the same pairwise
\* commutation pattern, and the StabilizerOp construction that closes
\* rotate_onto_single_qubit_paulis passes its checks.
C25_RotationKeepsStabilizers ==
    /\ op = "rotate_stabilizer" =>
          /\ n_terms(out.rotated) = n_terms(inA)
          /\ IndependentRows(out.rotated.symp_matrix)
          /\ \A r \in 1..n_terms(out.rotated) :
                out.rotated.coeff_vec[r] \in {CInt(1), CInt(-1)}
          /\ SameCommutationPattern(inA, out.rotated, inB.symp_matrix[1])
          /\ out.stabilizer.error = "none"
    /\ pc = "done" => red_result.error = "none"

\* +ZI, -IZ rotated about XI: ZI anticommutes with XI and becomes +YI, IZ
\* commutes and stays -IZ, and the set is a stabilizer set again
C25_Witness ==
    /\ op = "rotate_stabilizer"
    /\ inA.symp_matrix = <<(<<0, 0, 1, 0>>), (<<0, 0, 0, 1>>)>>
    /\ inA.coeff_vec = <<CInt(1), CInt(-1)>>
    /\ inB.symp_matrix = <<(<<1, 0, 0, 0>>)>>
    /\ RowSet(out.rotated) = {<<1, 0, 1, 0>>, <<0, 0, 0, 1>>}
    /\ CoeffOf(out.rotated, <<1, 0, 1, 0>>) = CInt(1)
    /\ CoeffOf(out.rotated, <<0, 0, 0, 1>>) = CInt(-1)
    /\ out.stabilizer.error = "none"
====
